---- MODULE Spec2Model ----
(***************************************************************************)
(* Model of src/src/emoji4unicode.py (the symbol registry, the allocation  *)
(* of proposed code points in Load, the carrier mapping queries and the    *)
(* sorted views) and of the carrier cells written by src/src/gen_html.py.  *)
(*                                                                         *)
(* A Python string is a sequence of one-character strings, so that         *)
(* startswith, slicing, split, int(s, 16) and "%04X" % n are computed, not *)
(* assumed.  getAttribute of an absent attribute is the empty string <<>>. *)
(* The document is the list of its category, subcategory and e elements in *)
(* document order; an element's id attribute is its position in that list  *)
(* (ids are unique within one document, spec section 3).                   *)
(***************************************************************************)
EXTENDS Integers, Sequences, FiniteSets, TLC

VARIABLES
  doc,                  \* the parsed emoji4unicode.xml (_doc/_root): element list
  no_fallbacks,         \* gen_html.py option _no_fallbacks
  pc,                   \* "start", "for" (inside Load's loop), "done", "raised"
  pos,                  \* position of the GetSymbols generators inside doc
  category,             \* the Category object the generator is inside of
  subcategory,          \* the Subcategory object the generator is inside of
  all_carrier_data,     \* carrier names that have CarrierData (empty: not loaded)
  carriers,             \* list of carrier names (empty before Load)
  id_to_symbol,         \* map from symbol id to Symbol object
  proposed_uni,         \* Load's local proposed_uni
  high_uni,             \* Load's local high_uni
  _id_to_proposed_uni,  \* map from symbol id to proposed code point string
  _kddi_to_google,      \* map from KDDI code string to Google code string
  result,               \* what the last query returned or raised
  xml,                  \* the document Write is called with, as its node list
  chunks,               \* the pieces doc.writexml hands to the writer, in order
  fed,                  \* how many of them writexml has written so far
  wpc,                  \* Write: "start", "writexml", "returned", "raised"
  __line,               \* _Writer.__line: the pending line
  __out_file,           \* what was written to _Writer.__out_file
  closed,               \* whether _Writer.__out_file was closed
  maxunicode            \* sys.maxunicode of the Python build that runs Write

\* The variables of Write and its _Writer.
wvars == <<xml, chunks, fed, wpc, __line, __out_file, closed, maxunicode>>

vars == <<doc, no_fallbacks, pc, pos, category, subcategory, all_carrier_data,
          carriers, id_to_symbol, proposed_uni, high_uni, _id_to_proposed_uni,
          _kddi_to_google, result, wvars>>

(***************************************************************************)
(* Python strings                                                          *)
(***************************************************************************)
\* sys.maxunicode: of a build with 16-bit characters, where a character above
\* U+FFFF is a pair of surrogates, and of a build with 32-bit characters.
NarrowBuild == 65535

WideBuild == 1114111

HexDigits == <<"0", "1", "2", "3", "4", "5", "6", "7",
               "8", "9", "A", "B", "C", "D", "E", "F">>

LowerHexDigits == <<"0", "1", "2", "3", "4", "5", "6", "7",
                    "8", "9", "a", "b", "c", "d", "e", "f">>

RECURSIVE HexString(_)
HexString(n) ==
  IF n < 16 THEN <<HexDigits[n + 1]>>
  ELSE Append(HexString(n \div 16), HexDigits[(n % 16) + 1])

\* "%04X" % n: at least four characters, the sign of a negative n among them
Format04X(n) ==
  LET h == HexString(IF n < 0 THEN 0 - n ELSE n)
      width == IF n < 0 THEN 3 ELSE 4
      zeros == IF Len(h) >= width THEN <<>> ELSE [i \in 1..(width - Len(h)) |-> "0"]
  IN  (IF n < 0 THEN <<"-">> ELSE <<>>) \o zeros \o h

\* The characters of a sequence as one string.
RECURSIVE Join(_)
Join(s) == IF s = <<>> THEN "" ELSE s[1] \o Join(Tail(s))

\* The name of the character with code point n outside ASCII: "U+2603".
CharName(n) == "U+" \o Join(Format04X(n))

\* The code points of the zeros of the decimal digits outside ASCII that
\* int() of a unicode string reads as 0-9 (Unicode 5.2, the database of
\* Python 2.7; those above U+FFFF on a build with 32-bit characters); the
\* digits 1-9 follow each zero.
DecimalDigitZeros ==
  {1632, 1776, 1984, 2406, 2534, 2662, 2790, 2918, 3046, 3174, 3302, 3430,
   3664, 3792, 3872, 4160, 4240, 6112, 6160, 6470, 6608, 6784, 6800, 6992,
   7088, 7232, 7248, 42528, 43216, 43264, 43472, 43600, 44016, 65296, 66720,
   120782, 120792, 120802, 120812, 120822}

\* U+19DA, NEW TAI LUE THAM DIGIT ONE, is a decimal digit of its own.
ThamDigitOne == 6618

\* The code points of these digits.
DecimalDigitPoints ==
  {z + k : z \in DecimalDigitZeros, k \in 0..9} \cup {ThamDigitOne}

\* Their names.
DecimalDigitNames == {CharName(n) : n \in DecimalDigitPoints}

\* The value of a digit of int(s, 16): an ASCII digit or letter a-f of either
\* case, or a decimal digit of another script; 16 for any other character.
DigitValue(c) ==
  IF \E i \in 1..16 : HexDigits[i] = c \/ LowerHexDigits[i] = c
  THEN (CHOOSE i \in 1..16 : HexDigits[i] = c \/ LowerHexDigits[i] = c) - 1
  ELSE IF c = CharName(ThamDigitOne) THEN 1
  ELSE IF c \in DecimalDigitNames
  THEN CHOOSE k \in 0..9 : \E z \in DecimalDigitZeros : CharName(z + k) = c
  ELSE 16

\* A digit int(s, 16) accepts.
IsHexDigit(c) == DigitValue(c) < 16

HexVal(c) == DigitValue(c)

\* s.startswith(c) for a one-character prefix c
startswith(s, c) == s # <<>> /\ Head(s) = c

\* c in s
Contains(s, c) == \E i \in 1..Len(s) : s[i] = c

\* s[1:]
DropFirst(s) == IF s = <<>> THEN <<>> ELSE Tail(s)

\* s[-3:]
Last3(s) == IF Len(s) <= 3 THEN s ELSE SubSeq(s, Len(s) - 2, Len(s))

\* The number of a sequence of digit values, the most significant first.
RECURSIVE HexValue(_)
HexValue(v) ==
  IF v = <<>> THEN 0
  ELSE HexValue(SubSeq(v, 1, Len(v) - 1)) * 16 + v[Len(v)]

\* The characters unicode.strip() removes and int() skips around a number:
\* blank, \t, \n, \r, form feed, U+000B, U+001C-001F, U+0085, U+00A0, U+1680,
\* U+180E, U+2000-200A, U+2028, U+2029, U+202F, U+205F, U+3000.
Whitespace ==
  {" ", "\n", "\t", "\r", "\f", "U+000B", "U+001C", "U+001D", "U+001E",
   "U+001F", "U+0085", "U+00A0", "U+1680", "U+180E", "U+2000", "U+2001",
   "U+2002", "U+2003", "U+2004", "U+2005", "U+2006", "U+2007", "U+2008",
   "U+2009", "U+200A", "U+2028", "U+2029", "U+202F", "U+205F", "U+3000"}

\* s.strip()
strip(s) ==
  LET keep == {i \in 1..Len(s) : s[i] \notin Whitespace}
  IN  IF keep = {} THEN <<>>
      ELSE SubSeq(s, CHOOSE i \in keep : \A j \in keep : i <= j,
                     CHOOSE i \in keep : \A j \in keep : j <= i)

\* The number of the characters u with digit values v: an optional zero with
\* x or X, and one or more digits; negative after a minus sign.
Unsigned16(u, v, negative) ==
  LET first == IF Len(u) >= 2 /\ v[1] = 0 /\ u[2] \in {"x", "X"} THEN 3 ELSE 1
      ok == first <= Len(u) /\ \A i \in first..Len(u) : v[i] < 16
      n == HexValue(SubSeq(v, first, Len(u)))
  IN  [raised |-> ~ok,
       value |-> IF ~ok THEN 0 ELSE IF negative THEN 0 - n ELSE n]

\* The number of the characters u after the sign.
AfterSign16(u, negative) ==
  Unsigned16(u, [i \in 1..Len(u) |-> HexVal(u[i])], negative)

\* The number of the characters t without white space around them: an
\* optional sign, white space, and the number without sign.
Signed16(t) ==
  AfterSign16(IF startswith(t, "+") \/ startswith(t, "-")
              THEN strip(Tail(t)) ELSE t,
              startswith(t, "-"))

\* int(s, 16) of a unicode string: whether it raises ValueError, and its
\* value.  White space around the number and between its sign and its digits
\* is skipped.
int16(s) == Signed16(strip(s))

\* s.split("+")
RECURSIVE split(_)
split(s) ==
  IF ~Contains(s, "+") THEN <<s>>
  ELSE LET i == CHOOSE j \in 1..Len(s) :
                  s[j] = "+" /\ \A k \in 1..(j - 1) : s[k] # "+"
       IN  <<SubSeq(s, 1, i - 1)>> \o split(SubSeq(s, i + 1, Len(s)))

\* dict[k] = v
Put(m, k, v) == [x \in (DOMAIN m) \cup {k} |-> IF x = k THEN v ELSE m[x]]

_HIGH_UNI == 127744
_MAX_HIGH_UNI == 129023

CarrierList == <<"docomo", "kddi", "softbank", "google">>

(***************************************************************************)
(* The registry: Category, Subcategory, Symbol                             *)
(***************************************************************************)
\* element.getAttribute(name)
getAttribute(element, name) ==
  IF name \in DOMAIN element THEN element[name] ELSE <<>>

_InProposal_NoInherit(element, parent_in_proposal) ==
  LET in_proposal_string == getAttribute(element, "in_proposal")
  IN  IF in_proposal_string = <<"n", "o">>
      THEN [raised |-> FALSE, value |-> FALSE]
      ELSE [raised |-> ~(in_proposal_string \in {<<>>, <<"y", "e", "s">>}),
            value |-> TRUE]

_InProposal_Unchecked(element, parent_in_proposal) ==
  LET in_proposal_string == getAttribute(element, "in_proposal")
  IN  IF in_proposal_string = <<"y", "e", "s">>
      THEN [raised |-> FALSE, value |-> TRUE]
      ELSE IF in_proposal_string = <<"n", "o">>
           THEN [raised |-> FALSE, value |-> FALSE]
           ELSE [raised |-> FALSE, value |-> parent_in_proposal]

\* _InProposal: [raised |-> TRUE] for the ValueError
_InProposal(element, parent_in_proposal) ==
  LET in_proposal_string == getAttribute(element, "in_proposal")
  IN  IF in_proposal_string # <<>>
      THEN IF in_proposal_string = <<"y", "e", "s">>
           THEN [raised |-> FALSE, value |-> TRUE]
           ELSE IF in_proposal_string = <<"n", "o">>
                THEN [raised |-> FALSE, value |-> FALSE]
                ELSE [raised |-> TRUE, value |-> FALSE]
      ELSE [raised |-> FALSE, value |-> parent_in_proposal]

\* Symbol.GetUnicode
GetUnicode(element) ==
  LET uni == getAttribute(element, "unicode")
  IN  IF startswith(uni, "+") THEN <<>>
      ELSE IF startswith(uni, "*") THEN DropFirst(uni)
      ELSE uni

\* Symbol.GetProposedUnicode
GetProposedUnicode(id) ==
  IF id \in DOMAIN _id_to_proposed_uni /\ _id_to_proposed_uni[id] # <<>>
  THEN _id_to_proposed_uni[id]
  ELSE <<>>

IsUnified_UpcomingAllocated(uni) == uni # <<>> /\ ~startswith(uni, "*")

\* "elif uni:" of _SetProposedUnicode: unified with another character.
IsUnified(uni) == uni # <<>>

ContinuationBase_LastAssigned(prev_proposed_uni, prev_high_uni) == prev_proposed_uni

\* What "+" continues after: int(prev_high_uni, 16) + 1.
ContinuationBase(prev_proposed_uni, prev_high_uni) == prev_high_uni

_SetProposedUnicode_PinnedApart(element, prev_proposed_uni, prev_high_uni, map) ==
  LET uni == getAttribute(element, "unicode")
      p == IF uni = <<"+">> THEN Format04X(int16(prev_high_uni).value + 1)
           ELSE IF startswith(uni, "+") THEN DropFirst(uni)
           ELSE Format04X(int16(prev_proposed_uni).value + 1)
      pinned == startswith(uni, "+") /\ uni # <<"+">>
  IN  IF IsUnified(uni) /\ ~startswith(uni, "+")
      THEN [map |-> map, raised |-> FALSE,
            proposed_uni |-> prev_proposed_uni, high_uni |-> prev_high_uni]
      ELSE [map |-> Put(map, element.id, p), raised |-> FALSE,
            proposed_uni |-> IF pinned THEN prev_proposed_uni ELSE p,
            high_uni |-> IF ~pinned /\ ~Contains(p, "+")
                            /\ _HIGH_UNI <= int16(p).value /\ int16(p).value <= _MAX_HIGH_UNI
                         THEN p ELSE prev_high_uni]

\* Symbol._SetProposedUnicode: the map after the call, whether it raised, and the
\* pair it returns.
_SetProposedUnicode(element, prev_proposed_uni, prev_high_uni, map) ==
  LET uni == getAttribute(element, "unicode")
      base == ContinuationBase(prev_proposed_uni, prev_high_uni)
      unchanged == [map |-> map, raised |-> FALSE,
                    proposed_uni |-> prev_proposed_uni, high_uni |-> prev_high_uni]
      failed == [map |-> map, raised |-> TRUE,
                 proposed_uni |-> prev_proposed_uni, high_uni |-> prev_high_uni]
      Record(p) ==
        LET m == Put(map, element.id, p)
        IN  IF Contains(p, "+")
            THEN [map |-> m, raised |-> FALSE,
                  proposed_uni |-> p, high_uni |-> prev_high_uni]
            ELSE IF int16(p).raised
                 THEN [map |-> m, raised |-> TRUE,
                       proposed_uni |-> prev_proposed_uni, high_uni |-> prev_high_uni]
                 ELSE IF _HIGH_UNI <= int16(p).value /\ int16(p).value <= _MAX_HIGH_UNI
                      THEN [map |-> m, raised |-> FALSE,
                            proposed_uni |-> p, high_uni |-> p]
                      ELSE [map |-> m, raised |-> FALSE,
                            proposed_uni |-> p, high_uni |-> prev_high_uni]
  IN  IF uni = <<"+">>
      THEN IF int16(base).raised THEN failed
           ELSE Record(Format04X(int16(base).value + 1))
      ELSE IF startswith(uni, "+")
           THEN Record(DropFirst(uni))
           ELSE IF IsUnified(uni)
                THEN unchanged
                ELSE IF int16(prev_proposed_uni).raised THEN failed
                     ELSE Record(Format04X(int16(prev_proposed_uni).value + 1))

GetCarrierUnicode_NoCheck(element, carrier) ==
  [raised |-> FALSE, value |-> getAttribute(element, carrier)]

\* Symbol.GetCarrierUnicode: [raised |-> TRUE] for the ValueError
GetCarrierUnicode(element, carrier) ==
  IF ~(\E i \in 1..Len(carriers) : carriers[i] = carrier)
  THEN [raised |-> TRUE, value |-> <<>>]
  ELSE [raised |-> FALSE, value |-> getAttribute(element, carrier)]

(***************************************************************************)
(* Load, one action per element the GetSymbols generator visits            *)
(***************************************************************************)
NoObject == [in_proposal |-> TRUE, element |-> 0]

AlreadyLoaded_Never == FALSE

\* "if all_carrier_data: return"
AlreadyLoaded == all_carrier_data # {}

SeedUni_OffByOne == Format04X(_HIGH_UNI)

\* high_uni = "%04X" % (_HIGH_UNI - 1)
SeedUni == Format04X(_HIGH_UNI - 1)

\* Load() up to the first step of its loop, or its immediate return.
Load_Call ==
  /\ pc \in {"start", "done", "raised"}
  /\ result' = [op |-> "Load", already_loaded |-> AlreadyLoaded]
  /\ IF AlreadyLoaded
     THEN /\ pc' = "done"
          /\ UNCHANGED <<pos, category, subcategory, all_carrier_data, carriers,
                         id_to_symbol, proposed_uni, high_uni,
                         _id_to_proposed_uni, _kddi_to_google>>
     ELSE /\ pc' = "for"
          /\ carriers' = CarrierList
          /\ all_carrier_data' = {CarrierList[i] : i \in 1..Len(CarrierList)}
          /\ id_to_symbol' = <<>>
          /\ high_uni' = SeedUni
          /\ proposed_uni' = high_uni'
          /\ _id_to_proposed_uni' = <<>>
          /\ _kddi_to_google' = <<>>
          /\ pos' = 1
          /\ category' = NoObject
          /\ subcategory' = NoObject
  /\ UNCHANGED wvars
  /\ UNCHANGED <<doc, no_fallbacks>>

\* GetCategories: the generator constructs the next Category.
Load_Category ==
  /\ pc = "for" /\ pos <= Len(doc) /\ doc[pos].tag = "category"
  /\ LET r == _InProposal(doc[pos], TRUE)
     IN  IF r.raised
         THEN pc' = "raised" /\ UNCHANGED <<pos, category, subcategory>>
         ELSE /\ category' = [in_proposal |-> r.value, element |-> pos]
              /\ subcategory' = NoObject
              /\ pos' = pos + 1
              /\ UNCHANGED pc
  /\ UNCHANGED wvars
  /\ UNCHANGED <<doc, no_fallbacks, all_carrier_data, carriers, id_to_symbol,
                 proposed_uni, high_uni, _id_to_proposed_uni, _kddi_to_google,
                 result>>

\* Category.GetSubcategories: the generator constructs the next Subcategory.
Load_Subcategory ==
  /\ pc = "for" /\ pos <= Len(doc) /\ doc[pos].tag = "subcategory"
  /\ LET r == _InProposal(doc[pos], category.in_proposal)
     IN  IF r.raised
         THEN pc' = "raised" /\ UNCHANGED <<pos, subcategory>>
         ELSE /\ subcategory' = [in_proposal |-> r.value, element |-> pos]
              /\ pos' = pos + 1
              /\ UNCHANGED pc
  /\ UNCHANGED wvars
  /\ UNCHANGED <<doc, no_fallbacks, category, all_carrier_data, carriers,
                 id_to_symbol, proposed_uni, high_uni, _id_to_proposed_uni,
                 _kddi_to_google, result>>

\* Symbol.__init__
NewSymbol(element, in_proposal) ==
  [id |-> element.id, in_proposal |-> in_proposal, element |-> element.id,
   subcategory |-> subcategory.element]

KddiToGoogle_KeepFirst(element, map) ==
  LET kddi_uni == getAttribute(element, "kddi")
      google_uni == getAttribute(element, "google")
  IN  IF /\ kddi_uni # <<>> /\ ~startswith(kddi_uni, ">") /\ google_uni # <<>>
         /\ kddi_uni \notin DOMAIN map
      THEN Put(map, kddi_uni, google_uni)
      ELSE map

\* The _kddi_to_google table after one symbol of Load's loop.
KddiToGoogle(element, map) ==
  LET kddi_uni == GetCarrierUnicode(element, "kddi").value
      google_uni == GetCarrierUnicode(element, "google").value
  IN  IF kddi_uni # <<>> /\ ~startswith(kddi_uni, ">") /\ google_uni # <<>>
      THEN Put(map, kddi_uni, google_uni)
      ELSE map

\* Subcategory.GetSymbols constructs the next Symbol; Load's loop body runs on it.
Load_Symbol ==
  /\ pc = "for" /\ pos <= Len(doc) /\ doc[pos].tag = "e"
  /\ LET element == doc[pos]
         r == _InProposal(element, subcategory.in_proposal)
         a == IF r.value
              THEN _SetProposedUnicode(element, proposed_uni, high_uni,
                                       _id_to_proposed_uni)
              ELSE [map |-> _id_to_proposed_uni, raised |-> FALSE,
                    proposed_uni |-> proposed_uni, high_uni |-> high_uni]
     IN  IF r.raised
         THEN /\ pc' = "raised"
              /\ UNCHANGED <<pos, id_to_symbol, proposed_uni, high_uni,
                             _id_to_proposed_uni, _kddi_to_google>>
         ELSE /\ id_to_symbol' = Put(id_to_symbol, element.id,
                                     NewSymbol(element, r.value))
              /\ _id_to_proposed_uni' = a.map
              /\ IF a.raised
                 THEN /\ pc' = "raised"
                      /\ UNCHANGED <<pos, proposed_uni, high_uni, _kddi_to_google>>
                 ELSE /\ proposed_uni' = a.proposed_uni
                      /\ high_uni' = a.high_uni
                      /\ _kddi_to_google' = KddiToGoogle(element, _kddi_to_google)
                      /\ pos' = pos + 1
                      /\ UNCHANGED pc
  /\ UNCHANGED wvars
  /\ UNCHANGED <<doc, no_fallbacks, category, subcategory, all_carrier_data,
                 carriers, result>>

\* The generator is exhausted: Load returns.
Load_Return ==
  /\ pc = "for" /\ pos > Len(doc)
  /\ pc' = "done"
  /\ UNCHANGED wvars
  /\ UNCHANGED <<doc, no_fallbacks, pos, category, subcategory, all_carrier_data,
                 carriers, id_to_symbol, proposed_uni, high_uni,
                 _id_to_proposed_uni, _kddi_to_google, result>>

\* Load has returned after visiting the whole document.
Loaded == pc = "done" /\ pos > Len(doc)

(***************************************************************************)
(* Queries on the loaded registry                                          *)
(***************************************************************************)
\* GetSymbols: the Symbol objects in document order (rebuilt at every call).
RECURSIVE GetSymbolsFrom(_, _, _)
GetSymbolsFrom(i, cat, sub) ==
  IF i > Len(doc) THEN <<>>
  ELSE LET element == doc[i]
       IN  IF element.tag = "category"
           THEN LET r == _InProposal(element, TRUE)
                IN  IF r.raised THEN <<>>
                    ELSE GetSymbolsFrom(i + 1, [in_proposal |-> r.value, element |-> i],
                                        NoObject)
           ELSE IF element.tag = "subcategory"
           THEN LET r == _InProposal(element, cat.in_proposal)
                IN  IF r.raised THEN <<>>
                    ELSE GetSymbolsFrom(i + 1, cat,
                                        [in_proposal |-> r.value, element |-> i])
           ELSE LET r == _InProposal(element, sub.in_proposal)
                IN  IF r.raised THEN <<>>
                    ELSE <<[id |-> element.id, in_proposal |-> r.value,
                            element |-> i, subcategory |-> sub.element]>>
                         \o GetSymbolsFrom(i + 1, cat, sub)

GetSymbols == GetSymbolsFrom(1, NoObject, NoObject)

\* _UnicodeSequenceToList: [raised |-> TRUE] for the ValueError of int()
_UnicodeSequenceToList(uni) ==
  LET code_points == split(uni)
  IN  [raised |-> \E i \in 1..Len(code_points) : int16(code_points[i]).raised,
       value |-> [i \in 1..Len(code_points) |-> int16(code_points[i]).value]]

\* a < b for two Python lists of integers
RECURSIVE ListLess(_, _)
ListLess(a, b) ==
  IF b = <<>> THEN FALSE
  ELSE IF a = <<>> THEN TRUE
  ELSE IF Head(a) = Head(b) THEN ListLess(Tail(a), Tail(b))
  ELSE Head(a) < Head(b)

\* (list, symbol) < (list, symbol): the lists decide, then the Symbol objects,
\* which Python 2 orders by their addresses.
PairLess(p, q, addr) ==
  \/ ListLess(p[1], q[1])
  \/ p[1] = q[1] /\ addr[p[2].id] < addr[q[2].id]

RECURSIVE Insert(_, _, _)
Insert(sorted, p, addr) ==
  IF sorted = <<>> THEN <<p>>
  ELSE IF PairLess(p, Head(sorted), addr) THEN <<p>> \o sorted
  ELSE <<Head(sorted)>> \o Insert(Tail(sorted), p, addr)

\* proposed_symbols.sort()
RECURSIVE sort(_, _)
sort(pairs, addr) ==
  IF pairs = <<>> THEN <<>>
  ELSE Insert(sort(SubSeq(pairs, 1, Len(pairs) - 1), addr), pairs[Len(pairs)], addr)

\* The pairs of the selected symbols, sorted; raised when int() raised.
SortedPairs(symbols, unis, addr) ==
  LET lists == [i \in 1..Len(symbols) |-> _UnicodeSequenceToList(unis[i])]
  IN  IF \E i \in 1..Len(symbols) : lists[i].raised
      THEN [raised |-> TRUE, value |-> <<>>]
      ELSE [raised |-> FALSE,
            value |-> sort([i \in 1..Len(symbols) |-> <<lists[i].value, symbols[i]>>],
                           addr)]

\* GetSymbolsSortedByUnicode
GetSymbolsSortedByUnicode(addr) ==
  LET Uni(symbol) ==
        LET uni == GetUnicode(doc[symbol.element])
            google == GetCarrierUnicode(doc[symbol.element], "google").value
        IN  IF uni # <<>> THEN uni
            ELSE IF symbol.in_proposal THEN GetProposedUnicode(symbol.id)
            ELSE IF startswith(google, ">") THEN DropFirst(google)
            ELSE google
  IN  SortedPairs(GetSymbols, [i \in 1..Len(GetSymbols) |-> Uni(GetSymbols[i])], addr)

\* GetSymbolsInProposalSortedByUnicode
GetSymbolsInProposalSortedByUnicode(addr) ==
  LET Uni(symbol) ==
        LET uni == GetUnicode(doc[symbol.element])
        IN  IF uni # <<>> THEN uni ELSE GetProposedUnicode(symbol.id)
      InProposal(symbol) == symbol.in_proposal
      symbols == SelectSeq(GetSymbols, InProposal)
  IN  SortedPairs(symbols, [i \in 1..Len(symbols) |-> Uni(symbols[i])], addr)

IsFallback_Never(code) == FALSE

\* code.startswith(">") in _WriteFullSymbolRowsHTML
IsFallback(code) == startswith(code, ">")

\* _WriteFullSymbolRowsHTML: the cell of one carrier column, with the code it
\* hands to _CarrierSymbolHTML.
CarrierCell(element, carrier) ==
  LET code == GetCarrierUnicode(element, carrier).value
      text_fallback == getAttribute(element, "text_fallback")
  IN  IF code # <<>>
      THEN IF IsFallback(code)
           THEN IF no_fallbacks
                THEN [class |-> "no_mapping", code |-> <<>>, text |-> <<"-">>]
                ELSE [class |-> "fallback", code |-> DropFirst(code), text |-> <<>>]
           ELSE [class |-> "round_trip", code |-> code, text |-> <<>>]
      ELSE IF no_fallbacks
           THEN [class |-> "no_mapping", code |-> <<>>, text |-> <<"-">>]
           ELSE [class |-> "text_fallback", code |-> <<>>,
                 text |-> IF text_fallback = <<>> THEN <<"U+3013">> ELSE text_fallback]

\* CarrierImageHTML for the carrier's symbol with code uni: the image hosted by
\* Google under the last three digits of the Google code, or the carrier
\* symbol's own ImageHTML().
CarrierImageHTML(carrier, uni) ==
  IF /\ carrier = "kddi" /\ uni \in DOMAIN _kddi_to_google
     /\ _kddi_to_google[uni] # <<>> /\ ~startswith(_kddi_to_google[uni], ">")
  THEN [host |-> "mail.google.com/mail/e/ezweb_ne_jp", key |-> Last3(_kddi_to_google[uni])]
  ELSE [host |-> carrier, key |-> uni]

\* The e elements of the document.
SymbolIds == {i \in 1..Len(doc) : doc[i].tag = "e"}

K1 == <<"E", "4", "8", "8">>
G1 == <<"F", "E", "0", "0", "0">>
G2 == <<"F", "E", "0", "0", "B">>

\* Carrier names a caller may pass: the four carriers, names of other
\* attributes of the element, and a name that is neither.
QueryNames == {"docomo", "kddi", "softbank", "google", "unicode", "id", "au"}

Query_GetCarrierUnicode ==
  /\ Loaded
  /\ \E i \in SymbolIds, carrier \in QueryNames :
       LET r == GetCarrierUnicode(doc[i], carrier)
       IN  result' = [op |-> "GetCarrierUnicode", symbol |-> i, carrier |-> carrier,
                      raised |-> r.raised, value |-> r.value]
  /\ UNCHANGED wvars
  /\ UNCHANGED <<doc, no_fallbacks, pc, pos, category, subcategory,
                 all_carrier_data, carriers, id_to_symbol, proposed_uni, high_uni,
                 _id_to_proposed_uni, _kddi_to_google>>

Query_CarrierCell ==
  /\ Loaded
  /\ \E i \in SymbolIds, k \in 1..Len(carriers) :
       result' = [op |-> "CarrierCell", symbol |-> i, carrier |-> carriers[k],
                  cell |-> CarrierCell(doc[i], carriers[k])]
  /\ UNCHANGED wvars
  /\ UNCHANGED <<doc, no_fallbacks, pc, pos, category, subcategory,
                 all_carrier_data, carriers, id_to_symbol, proposed_uni, high_uni,
                 _id_to_proposed_uni, _kddi_to_google>>

Query_CarrierImageHTML ==
  /\ Loaded
  /\ \E k \in 1..Len(carriers), uni \in {K1, G1, G2} :
       result' = [op |-> "CarrierImageHTML", carrier |-> carriers[k], uni |-> uni,
                  html |-> CarrierImageHTML(carriers[k], uni)]
  /\ UNCHANGED wvars
  /\ UNCHANGED <<doc, no_fallbacks, pc, pos, category, subcategory,
                 all_carrier_data, carriers, id_to_symbol, proposed_uni, high_uni,
                 _id_to_proposed_uni, _kddi_to_google>>

\* The addresses the Symbol objects of one GetSymbols pass can have.
Addresses ==
  {f \in [SymbolIds -> 1..Cardinality(SymbolIds)] :
     \A i, j \in SymbolIds : i # j => f[i] # f[j]}

Query_GetSymbolsSortedByUnicode ==
  /\ Loaded
  /\ \E addr \in Addresses :
       LET r == GetSymbolsSortedByUnicode(addr)
       IN  result' = [op |-> "GetSymbolsSortedByUnicode",
                      raised |-> r.raised, value |-> r.value]
  /\ UNCHANGED wvars
  /\ UNCHANGED <<doc, no_fallbacks, pc, pos, category, subcategory,
                 all_carrier_data, carriers, id_to_symbol, proposed_uni, high_uni,
                 _id_to_proposed_uni, _kddi_to_google>>

Query_GetSymbolsInProposalSortedByUnicode ==
  /\ Loaded
  /\ \E addr \in Addresses :
       LET r == GetSymbolsInProposalSortedByUnicode(addr)
       IN  result' = [op |-> "GetSymbolsInProposalSortedByUnicode",
                      raised |-> r.raised, value |-> r.value]
  /\ UNCHANGED wvars
  /\ UNCHANGED <<doc, no_fallbacks, pc, pos, category, subcategory,
                 all_carrier_data, carriers, id_to_symbol, proposed_uni, high_uni,
                 _id_to_proposed_uni, _kddi_to_google>>

(***************************************************************************)
(* Documents                                                               *)
(***************************************************************************)
Element(tag, in_proposal, unicode, kddi, google) ==
  [tag |-> tag, id |-> 0, in_proposal |-> in_proposal, unicode |-> unicode,
   docomo |-> <<>>, kddi |-> kddi, softbank |-> <<>>, google |-> google]

\* The elements numbered by their position.
WithIds(elements) ==
  [i \in 1..Len(elements) |-> [elements[i] EXCEPT !.id = i]]

SeqsUpTo(S, n) == UNION {[1..k -> S] : k \in 0..n}

yes == <<"y", "e", "s">>
no == <<"n", "o">>

NoResult == [op |-> "none"]

\* The module state before Load.
InitRegistry ==
  /\ pc = "start" /\ pos = 0
  /\ category = NoObject /\ subcategory = NoObject
  /\ all_carrier_data = {} /\ carriers = <<>>
  /\ id_to_symbol = <<>> /\ proposed_uni = <<>> /\ high_uni = <<>>
  /\ _id_to_proposed_uni = <<>> /\ _kddi_to_google = <<>>
  /\ result = NoResult

\* No Write is called; the build has 32-bit characters.
InitNoWrite ==
  /\ xml = <<>> /\ chunks = <<>> /\ fed = 0 /\ wpc = "start"
  /\ __line = <<>> /\ __out_file = <<>> /\ closed = FALSE
  /\ maxunicode = WideBuild

InitState == InitRegistry /\ InitNoWrite

\* Bound: the number of e elements of a document of AllocDocs.
MaxSymbols == 4

\* Bound: the number of elements of a document of HierDocs.
MaxNodes == 4

\* unicode attribute values: absent, continuation, pinned outside the reserved
\* block, pinned at the end of the block, a pinned sequence, unified, unified
\* with an upcoming character, a bare "*".
U_2600 == <<"2", "6", "0", "0">>
U_26CE == <<"2", "6", "C", "E">>
U_2700 == <<"2", "7", "0", "0">>
U_1F7FF == <<"1", "F", "7", "F", "F">>
U_Seq == <<"2", "3", "+", "2", "0", "E", "3">>

AllocUnicode ==
  { <<>>, <<"+">>, <<"+">> \o U_2700, <<"+">> \o U_1F7FF, <<"+">> \o U_Seq,
    U_2600, <<"*">> \o U_26CE, <<"*">> }

AllocSymbols ==
  {Element("e", <<>>, u, <<>>, <<>>) : u \in AllocUnicode}
  \cup {Element("e", no, u, <<>>, <<>>) : u \in {<<>>, <<"+">> \o U_2700}}

\* One category with one subcategory, both without in_proposal, and its symbols.
AllocDocs ==
  { WithIds(<<Element("category", <<>>, <<>>, <<>>, <<>>),
              Element("subcategory", <<>>, <<>>, <<>>, <<>>)>> \o syms) :
      syms \in SeqsUpTo(AllocSymbols, MaxSymbols) }

\* in_proposal attribute values: absent, the two literals, an unrecognized one.
HierInProposal == {<<>>, yes, no, <<"x">>}

HierElements ==
  {Element(t, ip, <<>>, <<>>, <<>>) :
     t \in {"category", "subcategory", "e"}, ip \in HierInProposal}

\* category > subcategory > e, listed in document order.
WellFormed(d) ==
  /\ d # <<>> => d[1].tag = "category"
  /\ \A i \in 2..Len(d) :
       d[i].tag = "e" => d[i - 1].tag \in {"subcategory", "e"}

HierDocs == {WithIds(d) : d \in {x \in SeqsUpTo(HierElements, MaxNodes) : WellFormed(x)}}

Init ==
  /\ doc \in AllocDocs \cup HierDocs
  /\ no_fallbacks = FALSE
  /\ InitState

Next ==
  \/ Load_Call
  \/ Load_Category
  \/ Load_Subcategory
  \/ Load_Symbol
  \/ Load_Return

Spec == Init /\ [][Next]_vars

(***************************************************************************)
(* Claims                                                                  *)
(***************************************************************************)
Explicit(v) == v = yes \/ v = no

\* The last element with the given tag before position i (0: none).
Enclosing(tag, i) ==
  LET S == {j \in 1..(i - 1) : doc[j].tag = tag}
  IN  IF S = {} THEN 0 ELSE CHOOSE j \in S : \A k \in S : k <= j

\* The nearest explicit in_proposal value walking up from symbol i, else TRUE.
Nearest(i) ==
  LET s == Enclosing("subcategory", i)
      c == Enclosing("category", i)
  IN  IF Explicit(doc[i].in_proposal) THEN doc[i].in_proposal = yes
      ELSE IF Explicit(doc[s].in_proposal) THEN doc[s].in_proposal = yes
      ELSE IF Explicit(doc[c].in_proposal) THEN doc[c].in_proposal = yes
      ELSE TRUE

\* C1: every symbol Load has built has the in_proposal value of the nearest
\* explicit "yes"/"no" on itself, else its subcategory, else its category, and
\* TRUE when none of the three has one.
C1_InProposalNearest ==
  \A id \in DOMAIN id_to_symbol : id_to_symbol[id].in_proposal = Nearest(id)

\* A loaded document in which a symbol without a value of its own, in a
\* subcategory without one, took "no" from its category, and another symbol
\* overrode it with "yes".
C1_Witness ==
  /\ Loaded
  /\ \E i, j \in DOMAIN id_to_symbol :
       /\ doc[i].in_proposal = <<>>
       /\ doc[Enclosing("subcategory", i)].in_proposal = <<>>
       /\ doc[Enclosing("category", i)].in_proposal = no
       /\ id_to_symbol[i].in_proposal = FALSE
       /\ doc[j].in_proposal = yes
       /\ id_to_symbol[j].in_proposal = TRUE

Assignable(uni) == uni = <<>> \/ startswith(uni, "+")

\* C2: after Load a symbol has a proposed code point exactly if it is in the
\* proposal and its unicode attribute is absent, "+" or "+XXXX".
C2_ProposedIff ==
  Loaded =>
    \A i \in SymbolIds :
      (GetProposedUnicode(i) # <<>>)
        <=> (id_to_symbol[i].in_proposal /\ Assignable(doc[i].unicode))

\* A loaded document with a symbol outside the proposal that has no unicode
\* attribute, a pinned symbol, and a symbol unified with an upcoming character.
C2_Witness ==
  /\ Loaded
  /\ \E i, j, k \in SymbolIds :
       /\ ~id_to_symbol[i].in_proposal /\ doc[i].unicode = <<>>
       /\ GetProposedUnicode(i) = <<>>
       /\ id_to_symbol[j].in_proposal /\ doc[j].unicode = <<"+">> \o U_2700
       /\ GetProposedUnicode(j) = U_2700
       /\ id_to_symbol[k].in_proposal /\ doc[k].unicode = <<"*">> \o U_26CE
       /\ GetProposedUnicode(k) = <<>>

\* C3: after Load every symbol in the proposal has a standardized code point
\* (GetUnicode) or a proposed one (GetProposedUnicode), and not both.
C3_ExactlyOne ==
  Loaded =>
    \A i \in SymbolIds :
      id_to_symbol[i].in_proposal =>
        ((GetUnicode(doc[i]) # <<>>) # (GetProposedUnicode(i) # <<>>))

\* C4: a call of Load after a Load that went through the whole document leaves
\* the proposed code points, id_to_symbol and the KDDI-to-Google table as they are.
C4_SecondLoadKeeps ==
  [][Loaded => /\ _id_to_proposed_uni' = _id_to_proposed_uni
               /\ id_to_symbol' = id_to_symbol
               /\ _kddi_to_google' = _kddi_to_google]_vars

\* Load was called again on a loaded registry that holds proposed code points.
C4_Witness ==
  /\ Loaded
  /\ result.op = "Load" /\ result.already_loaded
  /\ \E i, j \in SymbolIds : i # j /\ GetProposedUnicode(i) # <<>>
                                  /\ GetProposedUnicode(j) # <<>>

NoPinNoContinuation == \A i \in SymbolIds : ~startswith(doc[i].unicode, "+")

\* C5: in a document without pinned values and continuation markers, the
\* symbols in the proposal without a unicode attribute get 1F300, 1F301, ...
\* in document order, whatever lies between them.
C5_Consecutive ==
  NoPinNoContinuation =>
    LET E == {i \in DOMAIN id_to_symbol :
                id_to_symbol[i].in_proposal /\ doc[i].unicode = <<>>}
    IN  \A i \in E :
          int16(GetProposedUnicode(i)).value
            = _HIGH_UNI + Cardinality({j \in E : j < i})

\* Two allocations with a unified symbol and a symbol outside the proposal
\* between them.
C5_Witness ==
  /\ Loaded /\ NoPinNoContinuation
  /\ \E i \in SymbolIds :
       /\ (i + 3) \in SymbolIds
       /\ GetProposedUnicode(i) = <<"1", "F", "3", "0", "0">>
       /\ doc[i + 1].unicode = U_2600
       /\ ~id_to_symbol[i + 2].in_proposal
       /\ GetProposedUnicode(i + 3) = <<"1", "F", "3", "0", "1">>

\* The symbol received a single proposed code point inside the reserved block.
InBlock(i) ==
  LET p == GetProposedUnicode(i)
  IN  /\ p # <<>> /\ ~Contains(p, "+")
      /\ _HIGH_UNI <= int16(p).value /\ int16(p).value <= _MAX_HIGH_UNI

\* C6: a symbol with the bare continuation marker gets one more than the last
\* symbol before it that received a point inside the reserved block, however
\* many points outside the block were given out in between.
C6_Continuation ==
  \A a, b \in DOMAIN id_to_symbol :
    ( /\ a < b /\ InBlock(a)
      /\ doc[b].unicode = <<"+">> /\ id_to_symbol[b].in_proposal
      /\ \A c \in DOMAIN id_to_symbol : (a < c /\ c < b) => ~InBlock(c) )
    => int16(GetProposedUnicode(b)).value = int16(GetProposedUnicode(a)).value + 1

\* A got 1F300, a pin moved the allocation to 2700, the next symbol got 2701,
\* and the continuation marker after them got 1F301.
C6_Witness ==
  /\ Loaded
  /\ \E a \in SymbolIds :
       /\ (a + 3) \in SymbolIds
       /\ doc[a].unicode = <<>>
       /\ GetProposedUnicode(a) = <<"1", "F", "3", "0", "0">>
       /\ GetProposedUnicode(a + 1) = U_2700
       /\ GetProposedUnicode(a + 2) = <<"2", "7", "0", "1">>
       /\ doc[a + 3].unicode = <<"+">>
       /\ GetProposedUnicode(a + 3) = <<"1", "F", "3", "0", "1">>
(***************************************************************************)
(* Carrier mappings                                                        *)
(***************************************************************************)
\* Bound: the number of e elements of a document of CarrierDocs.
MaxCarrierSymbols == 2

\* Symbols unified with U+2600 whose kddi and google attributes are absent, a
\* code, or a fallback.
CarrierSymbols ==
  {Element("e", <<>>, U_2600, kddi, google) :
     kddi \in {<<>>, K1, <<">">> \o K1},
     google \in {<<>>, G1, G2, <<">">> \o G1}}

CarrierDocs ==
  { WithIds(<<Element("category", <<>>, <<>>, <<>>, <<>>),
              Element("subcategory", <<>>, <<>>, <<>>, <<>>)>> \o syms) :
      syms \in SeqsUpTo(CarrierSymbols, MaxCarrierSymbols) }

InitCarrier ==
  /\ doc \in CarrierDocs
  /\ no_fallbacks \in BOOLEAN
  /\ InitState

NextCarrier ==
  \/ Load_Call
  \/ Load_Category
  \/ Load_Subcategory
  \/ Load_Symbol
  \/ Load_Return
  \/ Query_GetCarrierUnicode
  \/ Query_CarrierCell
  \/ Query_CarrierImageHTML

SpecCarrier == InitCarrier /\ [][NextCarrier]_vars

\* The three kinds of mapping of the claim, with the code each carries.
MappingKind(v) ==
  IF v = <<>> THEN [kind |-> "NoMapping", code |-> <<>>]
  ELSE IF v[1] # ">" THEN [kind |-> "RoundTrip", code |-> v]
  ELSE [kind |-> "Fallback", code |-> SubSeq(v, 2, Len(v))]

\* The cell class that stands for a kind of mapping.
ClassOf(kind) ==
  IF kind = "RoundTrip" THEN {"round_trip"}
  ELSE IF kind = "Fallback" THEN {"fallback"}
  ELSE {"no_mapping", "text_fallback"}

\* C7 as stated: the cell of a carrier column has the class of the kind of the
\* symbol's mapping (absent: no_mapping/text_fallback, a code: round_trip, a
\* ">"-marked code: fallback) and carries that mapping's code.
C7_CellFollowsKind ==
  result.op = "CarrierCell" =>
    LET k == MappingKind(getAttribute(doc[result.symbol], result.carrier))
    IN  /\ result.cell.class \in ClassOf(k.kind)
        /\ result.cell.code = k.code

\* C7, amended: GetCarrierUnicode of a known carrier returns the attribute as it
\* is, and the cell follows the kind of the mapping, except that with
\* no_fallbacks a ">"-marked code is written as a no_mapping cell without a code.
C7_CellFollowsKindUnlessNoFallbacks ==
  /\ (result.op = "GetCarrierUnicode" /\ ~result.raised) =>
       result.value = getAttribute(doc[result.symbol], result.carrier)
  /\ result.op = "CarrierCell" =>
       LET k == MappingKind(getAttribute(doc[result.symbol], result.carrier))
       IN  IF no_fallbacks /\ k.kind = "Fallback"
           THEN result.cell.class = "no_mapping" /\ result.cell.code = <<>>
           ELSE /\ result.cell.class \in ClassOf(k.kind)
                /\ result.cell.code = k.code
                /\ (k.kind = "NoMapping") =>
                     (result.cell.class = "no_mapping") = no_fallbacks

\* A fallback cell that carries the code without its ">".
C7_Witness ==
  /\ result.op = "CarrierCell" /\ result.carrier = "google"
  /\ doc[result.symbol].google = <<">">> \o G1
  /\ result.cell = [class |-> "fallback", code |-> G1, text |-> <<>>]

\* C8: GetCarrierUnicode raises for every carrier name that is not one of the
\* four carriers, also when the element has an attribute of that name.
C8_UnknownCarrierRaises ==
  (result.op = "GetCarrierUnicode"
     /\ result.carrier \notin {"docomo", "kddi", "softbank", "google"})
    => (result.raised /\ result.value = <<>>)

\* GetCarrierUnicode was asked for "unicode" on a symbol that has that attribute.
C8_Witness ==
  /\ result.op = "GetCarrierUnicode" /\ result.carrier = "unicode"
  /\ doc[result.symbol].unicode = U_2600
  /\ result.raised

RoundTrip(v) == v # <<>> /\ v[1] # ">"

\* The image Google hosts for a Google code.
GoogleImage(g) ==
  [host |-> "mail.google.com/mail/e/ezweb_ne_jp",
   key |-> IF Len(g) <= 3 THEN g ELSE <<g[Len(g) - 2], g[Len(g) - 1], g[Len(g)]>>]

\* C9 as stated: for every symbol with a KDDI round-trip code and a Google
\* round-trip code, the KDDI image of that KDDI code is the image Google hosts
\* for the symbol's Google code, whatever else the document holds.
C9_KddiImageIsGoogle ==
  (result.op = "CarrierImageHTML" /\ result.carrier = "kddi") =>
    \A i \in SymbolIds :
      (RoundTrip(doc[i].kddi) /\ doc[i].kddi = result.uni /\ RoundTrip(doc[i].google))
        => result.html = GoogleImage(doc[i].google)

\* C9, amended: the KDDI image of a KDDI code goes by the last symbol in
\* document order that has this code as its KDDI round-trip code and has a
\* Google code.  It is the image Google hosts for that symbol's Google code when
\* that is a round-trip code; with a Google fallback there, or with no such
\* symbol, it is the KDDI symbol's own image.  So the claim holds for every
\* symbol S that no such symbol follows.
C9_KddiImageIsGoogleOfLast ==
  (result.op = "CarrierImageHTML" /\ result.carrier = "kddi") =>
    LET S == {i \in SymbolIds :
                RoundTrip(doc[i].kddi) /\ doc[i].kddi = result.uni
                  /\ doc[i].google # <<>>}
    IN  IF S = {} THEN result.html = [host |-> "kddi", key |-> result.uni]
        ELSE LET last == CHOOSE i \in S : \A j \in S : j <= i
             IN  IF RoundTrip(doc[last].google)
                 THEN result.html = GoogleImage(doc[last].google)
                 ELSE result.html = [host |-> "kddi", key |-> result.uni]

\* The KDDI image of K1 is Google's 00B, taken from the second of two symbols
\* with KDDI code K1.
C9_Witness ==
  /\ result.op = "CarrierImageHTML" /\ result.carrier = "kddi" /\ result.uni = K1
  /\ \E i, j \in SymbolIds :
       /\ i < j /\ doc[i].kddi = K1 /\ doc[i].google = G1
       /\ doc[j].kddi = K1 /\ doc[j].google = G2
  /\ result.html.key = <<"0", "0", "B">>

(***************************************************************************)
(* Sorted views                                                            *)
(***************************************************************************)
\* Bound: the number of e elements of a document of SortedDocs.
MaxSortedSymbols == 3

U_23 == <<"0", "0", "2", "3">>

\* Symbols in the proposal: new, unified with one character, with a shorter
\* list, with a sequence, with a bare "*", with a character written in
\* lower-case digits, or with a value int() reads as -1 (a sign, a blank and
\* an Arabic-Indic digit); symbols outside the proposal
\* without, with a Google code and with a Google fallback.
SortedSymbols ==
  {Element("e", <<>>, u, <<>>, <<>>) :
     u \in {<<>>, U_2600, U_23, U_Seq, <<"*">>, <<"2", "6", "c", "e">>,
             <<"-", " ", "U+0661">>}}
  \cup {Element("e", no, <<>>, <<>>, g) : g \in {<<>>, G1, <<">">> \o G1}}

SortedDocs ==
  { WithIds(<<Element("category", <<>>, <<>>, <<>>, <<>>),
              Element("subcategory", <<>>, <<>>, <<>>, <<>>)>> \o syms) :
      syms \in SeqsUpTo(SortedSymbols, MaxSortedSymbols) }

InitSorted ==
  /\ doc \in SortedDocs
  /\ no_fallbacks = FALSE
  /\ InitState

NextSorted ==
  \/ Load_Call
  \/ Load_Category
  \/ Load_Subcategory
  \/ Load_Symbol
  \/ Load_Return
  \/ Query_GetSymbolsSortedByUnicode
  \/ Query_GetSymbolsInProposalSortedByUnicode

SpecSorted == InitSorted /\ [][NextSorted]_vars

\* a <= b in the lexicographic order of lists of integers
LexLeq(a, b) ==
  LET D == {i \in 1..Len(a) : i > Len(b) \/ a[i] # b[i]}
  IN  IF D = {} THEN TRUE
      ELSE LET d == CHOOSE i \in D : \A j \in D : i <= j
           IN  d <= Len(b) /\ a[d] < b[d]

\* The code point string a sorted view goes by.
EffectiveUnicode(i) ==
  IF GetUnicode(doc[i]) # <<>> THEN GetUnicode(doc[i])
  ELSE IF id_to_symbol[i].in_proposal THEN GetProposedUnicode(i)
  ELSE IF doc[i].google # <<>> /\ doc[i].google[1] = ">" THEN Tail(doc[i].google)
  ELSE doc[i].google

\* The integers of the hexadecimal numbers of a "+"-separated string.
CodePoints(s) ==
  LET cuts == <<0>> \o SelectSeq([i \in 1..Len(s) |-> IF s[i] = "+" THEN i ELSE 0],
                                 LAMBDA x : x # 0) \o <<Len(s) + 1>>
  IN  [k \in 1..(Len(cuts) - 1) |->
         int16(SubSeq(s, cuts[k] + 1, cuts[k + 1] - 1)).value]

\* Every selected symbol once, paired with the integers of its effective code
\* points, in non-decreasing lexicographic order of these integer lists.
SortedView(op, pairs) ==
  LET selected == IF op = "GetSymbolsSortedByUnicode" THEN SymbolIds
                  ELSE {i \in SymbolIds : id_to_symbol[i].in_proposal}
  IN  /\ Len(pairs) = Cardinality(selected)
      /\ \A i \in selected : \E k \in 1..Len(pairs) : pairs[k][2].id = i
      /\ \A k \in 1..Len(pairs) :
           /\ pairs[k][2] = id_to_symbol[pairs[k][2].id]
           /\ pairs[k][1] = CodePoints(EffectiveUnicode(pairs[k][2].id))
      /\ \A k \in 1..(Len(pairs) - 1) : LexLeq(pairs[k][1], pairs[k + 1][1])

SortedOps == {"GetSymbolsSortedByUnicode", "GetSymbolsInProposalSortedByUnicode"}

\* C10: the two sorted views return every selected symbol once, paired with
\* the integers of its effective code points (standardized, else proposed for a
\* symbol in the proposal, else the Google code without ">"), in non-decreasing
\* lexicographic order of the integer lists.
C10_ReturnsSortedByIntegers ==
  result.op \in SortedOps => (~result.raised /\ SortedView(result.op, result.value))

\* What holds of the code: a sorted view that returns, returns that.
C10_SortedWhenReturned ==
  (result.op \in SortedOps /\ ~result.raised) => SortedView(result.op, result.value)

\* The view of all symbols of a document that lists U+1F300 (proposed), a
\* Google fallback code and U+2600 in this order: 2600, 1F300, FE000.
C10_ReturnedWitness ==
  /\ result.op = "GetSymbolsSortedByUnicode" /\ ~result.raised
  /\ Len(result.value) = 3
  /\ doc[result.value[1][2].element].unicode = U_2600
  /\ doc[result.value[3][2].element].google = <<">">> \o G1
  /\ result.value[1][2].id = 5
  /\ result.value[1][1] = <<9728>>
  /\ result.value[2][1] = <<127744>>
  /\ result.value[3][1] = <<1040384>>

(***************************************************************************)
(* The sources file of src/src/gen_sources_file.py                         *)
(***************************************************************************)
\* The pieces _WriteSourcesFile writes before and after the data lines.
_HEADER == <<"# EmojiSources.txt">>
_FOOTER == <<"# EOF">>

U_27BF == <<"2", "7", "B", "F">>

SkippedByPolicy_Never(uni) == FALSE

\* if uni == "27BF": continue
SkippedByPolicy(uni) == uni = U_27BF

\* if code and not code.startswith(">")
HasRoundTrip(code) == code # <<>> /\ ~startswith(code, ">")

\* uni.replace("+", " ")
replace(s) == [i \in 1..Len(s) |-> IF s[i] = "+" THEN " " ELSE s[i]]

\* u";".join(fields)
RECURSIVE join(_)
join(fields) ==
  IF fields = <<>> THEN <<>>
  ELSE IF Len(fields) = 1 THEN fields[1]
  ELSE fields[1] \o <<";">> \o join(Tail(fields))

MissingShiftJis ==
  <<"M", "i", "s", "s", "i", "n", "g", " ", "S", "h", "i", "f", "t", "-",
    "J", "I", "S", " ", "c", "o", "d", "e">>

SourcesCarriers == <<"docomo", "kddi", "softbank">>

SourcesField_CarrierCode(element, carrier, carrier_data) ==
  LET code == GetCarrierUnicode(element, carrier).value
  IN  IF HasRoundTrip(code) THEN code ELSE <<>>

\* The field of one carrier: the Shift-JIS code of the carrier symbol that
\* SymbolFromUnicode(code) finds in the carrier's data, or the text written
\* when that symbol has none, or nothing.
SourcesField(element, carrier, carrier_data) ==
  LET code == GetCarrierUnicode(element, carrier).value
  IN  IF HasRoundTrip(code)
      THEN LET carrier_symbol == carrier_data[carrier][code]
           IN  IF carrier_symbol.shift_jis # <<>>
               THEN carrier_symbol.shift_jis
               ELSE MissingShiftJis
      ELSE <<>>

\* The body of the loop of _WriteSourcesFile for one symbol: the lines it
\* writes (none or one).
SourcesLines(symbol, carrier_data) ==
  LET element == doc[symbol.element]
      uni == IF GetUnicode(element) # <<>> THEN GetUnicode(element)
             ELSE GetProposedUnicode(symbol.id)
      fields == <<replace(uni)>>
                \o [k \in 1..Len(SourcesCarriers) |->
                      SourcesField(element, SourcesCarriers[k], carrier_data)]
      has_mappings ==
        \E k \in 1..Len(SourcesCarriers) :
          HasRoundTrip(GetCarrierUnicode(element, SourcesCarriers[k]).value)
  IN  IF SkippedByPolicy(uni) THEN <<>>
      ELSE IF has_mappings THEN <<join(fields) \o <<"\n">>>>
      ELSE <<>>

RECURSIVE SourcesLinesOf(_, _)
SourcesLinesOf(pairs, carrier_data) ==
  IF pairs = <<>> THEN <<>>
  ELSE SourcesLines(pairs[1][2], carrier_data)
       \o SourcesLinesOf(Tail(pairs), carrier_data)

\* _WriteSourcesFile: what was written to the writer, whether the writer was
\* closed, and whether the ValueError of the sorted view came through.
_WriteSourcesFile(addr, carrier_data) ==
  LET symbols == GetSymbolsInProposalSortedByUnicode(addr)
  IN  IF symbols.raised
      THEN [raised |-> TRUE, written |-> <<_HEADER>>, closed |-> FALSE]
      ELSE [raised |-> FALSE,
            written |-> <<_HEADER>> \o SourcesLinesOf(symbols.value, carrier_data)
                        \o <<_FOOTER>>,
            closed |-> TRUE]

D1 == <<"E", "6", "3", "E">>
S1 == <<"E", "0", "4", "A">>

\* The carrier code of the model's documents for each carrier, and the
\* Shift-JIS code of its carrier symbol.
CodeOf == [c \in {"docomo", "kddi", "softbank"} |->
             IF c = "docomo" THEN D1 ELSE IF c = "kddi" THEN K1 ELSE S1]
ShiftJisOf == [c \in {"docomo", "kddi", "softbank"} |->
                 IF c = "docomo" THEN <<"F", "8", "9", "F">>
                 ELSE IF c = "kddi" THEN <<"F", "6", "6", "0">>
                 ELSE <<"F", "9", "8", "B">>]

\* all_carrier_data as _WriteSourcesFile reads it: per carrier, the symbol of
\* each carrier code, with its shift_jis or without one.
CarrierData ==
  {[c \in {"docomo", "kddi", "softbank"} |->
      [code \in {CodeOf[c]} |->
         [shift_jis |-> IF c \in missing THEN <<>> ELSE ShiftJisOf[c]]]] :
     missing \in SUBSET {"docomo", "kddi", "softbank"}}

Query_WriteSourcesFile ==
  /\ Loaded
  /\ \E addr \in Addresses, carrier_data \in CarrierData :
       LET r == _WriteSourcesFile(addr, carrier_data)
       IN  result' = [op |-> "_WriteSourcesFile", carrier_data |-> carrier_data,
                      raised |-> r.raised, written |-> r.written,
                      closed |-> r.closed]
  /\ UNCHANGED wvars
  /\ UNCHANGED <<doc, no_fallbacks, pc, pos, category, subcategory,
                 all_carrier_data, carriers, id_to_symbol, proposed_uni, high_uni,
                 _id_to_proposed_uni, _kddi_to_google>>

\* Bound: the number of e elements of a document of SourcesDocs.
MaxSourcesSymbols == 2

\* An e element with codes of the three carriers of the sources file.
SourcesElement(in_proposal, unicode, docomo, kddi, softbank) ==
  [Element("e", in_proposal, unicode, kddi, <<>>)
     EXCEPT !.docomo = docomo, !.softbank = softbank]

\* Symbols: newly proposed with a mix of mappings and with none, unified with
\* and without round-trip mappings, the skipped 27BF, a pinned sequence, a
\* bare "*", and one outside the proposal.
SourcesSymbols ==
  { SourcesElement(<<>>, <<>>, D1, <<">">> \o K1, <<>>),
    SourcesElement(<<>>, <<>>, <<>>, <<>>, <<>>),
    SourcesElement(<<>>, U_2600, <<>>, K1, S1),
    SourcesElement(<<>>, U_2600, <<">">> \o D1, <<>>, <<>>),
    SourcesElement(<<>>, U_23, D1, K1, S1),
    SourcesElement(<<>>, U_27BF, D1, <<>>, <<>>),
    SourcesElement(<<>>, <<"+">> \o U_Seq, <<>>, <<>>, S1),
    SourcesElement(<<>>, <<"*">>, D1, <<>>, <<>>),
    SourcesElement(no, U_2600, D1, <<>>, <<>>) }

SourcesDocs ==
  { WithIds(<<Element("category", <<>>, <<>>, <<>>, <<>>),
              Element("subcategory", <<>>, <<>>, <<>>, <<>>)>> \o syms) :
      syms \in SeqsUpTo(SourcesSymbols, MaxSourcesSymbols) }

InitSources ==
  /\ doc \in SourcesDocs
  /\ no_fallbacks = FALSE
  /\ InitState

NextSources ==
  \/ Load_Call
  \/ Load_Category
  \/ Load_Subcategory
  \/ Load_Symbol
  \/ Load_Return
  \/ Query_WriteSourcesFile

SpecSources == InitSources /\ [][NextSources]_vars

\* s.split(c)
RECURSIVE SplitOn(_, _)
SplitOn(s, c) ==
  IF ~Contains(s, c) THEN <<s>>
  ELSE LET i == CHOOSE j \in 1..Len(s) :
                  s[j] = c /\ \A k \in 1..(j - 1) : s[k] # c
       IN  <<SubSeq(s, 1, i - 1)>> \o SplitOn(SubSeq(s, i + 1, Len(s)), c)

\* The data lines of the written file: what lies between header and footer.
DataLines ==
  LET w == result.written
  IN  IF result.raised THEN SubSeq(w, 2, Len(w)) ELSE SubSeq(w, 2, Len(w) - 1)

\* The fields of a data line without its line break.
FieldsOf(line) == SplitOn(SubSeq(line, 1, Len(line) - 1), ";")

\* The resolved code point of a symbol: standardized, else proposed.
Resolved(i) ==
  IF GetUnicode(doc[i]) # <<>> THEN GetUnicode(doc[i]) ELSE GetProposedUnicode(i)

\* The in-proposal symbols with a resolved code point other than 27BF.
SourcesSelected ==
  {i \in SymbolIds :
     id_to_symbol[i].in_proposal /\ Resolved(i) # <<>> /\ Resolved(i) # U_27BF}

\* The symbol has an equivalent (round-trip) mapping to the carrier.
Equivalent(i, carrier) ==
  doc[i][carrier] # <<>> /\ doc[i][carrier][1] # ">"

\* The code point with the code points of a sequence separated by spaces.
Spaced(u) == [k \in 1..Len(u) |-> IF u[k] = "+" THEN " " ELSE u[k]]

\* As many lines start with the code point of a symbol of S as S has symbols
\* with that code point, and there are no other lines.
OneLineEach(S, lines) ==
  /\ Len(lines) = Cardinality(S)
  /\ \A i \in S :
       Cardinality({k \in 1..Len(lines) : FieldsOf(lines[k])[1] = Spaced(Resolved(i))})
         = Cardinality({j \in S : Resolved(j) = Resolved(i)})

ShiftJisCodes == {ShiftJisOf[c] : c \in DOMAIN ShiftJisOf}

\* C11 as stated: the export writes exactly one line for every in-proposal
\* symbol with a resolved code point other than 27BF, and each line has that
\* code point followed by the docomo, kddi and softbank fields, each a
\* Shift-JIS code or empty.
C11_OneLinePerResolvedSymbol ==
  result.op = "_WriteSourcesFile" =>
    /\ OneLineEach(SourcesSelected, DataLines)
    /\ \A k \in 1..Len(DataLines) :
         /\ Len(FieldsOf(DataLines[k])) = 4
         /\ \A f \in 2..4 : FieldsOf(DataLines[k])[f] \in ShiftJisCodes \cup {<<>>}

\* C11, amended: the export writes exactly one line for every in-proposal
\* symbol whose resolved code point is not 27BF and that has a round-trip
\* mapping to docomo, kddi or softbank, and no line for a symbol without one.
\* Each line has the code point followed by the three fields, each the carrier
\* symbol's Shift-JIS code, the text "Missing Shift-JIS code" where the carrier
\* symbol has none, or empty.  When an in-proposal symbol has no resolved code
\* point, the sorted view raises after the header and no line is written.
C11_OneLinePerMappedSymbol ==
  result.op = "_WriteSourcesFile" =>
    LET lines == DataLines
        unresolved == \E i \in SymbolIds :
                        id_to_symbol[i].in_proposal /\ Resolved(i) = <<>>
        mapped == {i \in SourcesSelected :
                     \E k \in 1..Len(SourcesCarriers) :
                       Equivalent(i, SourcesCarriers[k])}
    IN  /\ result.raised = unresolved
        /\ result.written[1] = _HEADER
        /\ IF unresolved
           THEN lines = <<>> /\ ~result.closed
           ELSE /\ OneLineEach(mapped, lines)
                /\ result.written[Len(result.written)] = _FOOTER
                /\ result.closed
        /\ \A k \in 1..Len(lines) :
             /\ Len(FieldsOf(lines[k])) = 4
             /\ \A f \in 2..4 :
                  FieldsOf(lines[k])[f] \in ShiftJisCodes \cup {<<>>, MissingShiftJis}

\* The file of a document with a proposed symbol mapped to docomo and the
\* symbol 27BF: one line, "1F300;F89F;;".
C11_Witness ==
  /\ result.op = "_WriteSourcesFile" /\ ~result.raised
  /\ \E i, j \in SymbolIds :
       /\ Resolved(i) = <<"1", "F", "3", "0", "0">> /\ doc[i].docomo = D1
       /\ Resolved(j) = U_27BF /\ doc[j].docomo = D1
  /\ DataLines = << <<"1", "F", "3", "0", "0", ";", "F", "8", "9", "F", ";", ";", "\n">> >>

\* The lines are the lines of distinct symbols, each line starting with its
\* symbol's code point: the assignments of symbols to the lines.
LineSymbols(lines) ==
  {f \in [1..Len(lines) -> SymbolIds] :
     /\ \A k, l \in 1..Len(lines) : k # l => f[k] # f[l]
     /\ \A k \in 1..Len(lines) : FieldsOf(lines[k])[1] = Spaced(Resolved(f[k]))}

\* C12 as stated: every data line has exactly four fields, and each of the
\* fields 1..3 holds a Shift-JIS code if and only if the line's symbol has a
\* round-trip mapping to that carrier; with a fallback-marked or absent
\* mapping the field is empty.
C12_FieldIffEquivalent ==
  result.op = "_WriteSourcesFile" =>
    \E f \in LineSymbols(DataLines) :
      \A k \in 1..Len(DataLines) :
        /\ Len(FieldsOf(DataLines[k])) = 4
        /\ \A c \in 1..3 :
             LET field == FieldsOf(DataLines[k])[c + 1]
             IN  /\ (field \in ShiftJisCodes) <=> Equivalent(f[k], SourcesCarriers[c])
                 /\ ~Equivalent(f[k], SourcesCarriers[c]) => field = <<>>

\* C12, amended: every data line has exactly four fields, and each of the
\* fields 1..3 is non-empty if and only if the line's symbol has a round-trip
\* mapping to that carrier: it then holds the Shift-JIS code of the carrier
\* symbol, or the text "Missing Shift-JIS code" when the carrier symbol has
\* none; with a fallback-marked or absent mapping the field is empty.
C12_FieldIffEquivalentOrMissing ==
  result.op = "_WriteSourcesFile" =>
    \E f \in LineSymbols(DataLines) :
      \A k \in 1..Len(DataLines) :
        /\ Len(FieldsOf(DataLines[k])) = 4
        /\ \A c \in 1..3 :
             LET carrier == SourcesCarriers[c]
                 field == FieldsOf(DataLines[k])[c + 1]
                 shift_jis ==
                   result.carrier_data[carrier][doc[f[k]][carrier]].shift_jis
             IN  IF Equivalent(f[k], carrier)
                 THEN field = IF shift_jis # <<>> THEN shift_jis ELSE MissingShiftJis
                 ELSE field = <<>>

\* The file of a document whose one symbol has a docomo code, a fallback-marked
\* KDDI code and no SoftBank code: the line "1F300;F89F;;".
C12_Witness ==
  /\ result.op = "_WriteSourcesFile" /\ ~result.raised
  /\ \E i \in SymbolIds :
       /\ doc[i].docomo = D1 /\ doc[i].kddi = <<">">> \o K1 /\ doc[i].softbank = <<>>
       /\ Resolved(i) = <<"1", "F", "3", "0", "0">>
  /\ Len(DataLines) = 1
  /\ FieldsOf(DataLines[1])
       = << <<"1", "F", "3", "0", "0">>, <<"F", "8", "9", "F">>, <<>>, <<>> >>

(***************************************************************************)
(* _Writer and Write                                                       *)
(*                                                                         *)
(* A printable character of ASCII, a line break, a tab or a form feed is    *)
(* its own one-character string; every other character is named by its     *)
(* code point in hexadecimal digits, "U+2603", on either build.            *)
(***************************************************************************)
\* The value of an ASCII hexadecimal digit of either case; 16 otherwise.
AsciiHexValue(d) ==
  IF \E i \in 1..16 : HexDigits[i] = d \/ LowerHexDigits[i] = d
  THEN (CHOOSE i \in 1..16 : HexDigits[i] = d \/ LowerHexDigits[i] = d) - 1
  ELSE 16

\* The code point of a character named by its code point: the number after
\* "U+".
CodePointOf(c) ==
  HexValue([i \in 1..(Len(c) - 2) |-> AsciiHexValue(SubSeq(c, i + 2, i + 2))])

\* The code point lies in one of the ranges of _escape_re, of which the first
\* ends at last: U+0000-007E, U+00A1-00FF, U+3040-30FF, U+4E00-9FFF,
\* U+FF01-FFEE.
InRanges(n, last) ==
  \/ n <= last
  \/ 161 <= n /\ n <= 255
  \/ 12352 <= n /\ n <= 12543
  \/ 19968 <= n /\ n <= 40959
  \/ 65281 <= n /\ n <= 65518

IsSafe_Through7F(c) == Len(c) = 1 \/ InRanges(CodePointOf(c), 127)

\* The characters _escape_re leaves alone: a character that is its own
\* string (ASCII below U+007F), or one named by a code point of the ranges.
IsSafe(c) == Len(c) = 1 \/ InRanges(CodePointOf(c), 126)

\* u"&#x%04X;" % n
Reference(n) == <<"&", "#", "x">> \o Format04X(n) \o <<";">>

\* _EscapeChars for one character of the text: u"&#x%04X;" % ord(c) for each
\* c of the loop, which is the character itself, or, when the build has
\* 16-bit characters and the character lies above U+FFFF, each of its two
\* surrogates.
_EscapeChars(c) ==
  LET n == CodePointOf(c)
  IN  IF n <= maxunicode THEN Reference(n)
      ELSE Reference(55296 + ((n - 65536) \div 1024))
           \o Reference(56320 + ((n - 65536) % 1024))

\* _escape_re.sub(_EscapeChars, line)
RECURSIVE escape(_)
escape(line) ==
  IF line = <<>> THEN <<>>
  ELSE (IF IsSafe(line[1]) THEN <<line[1]>> ELSE _EscapeChars(line[1]))
       \o escape(Tail(line))

Quot == <<"&", "q", "u", "o", "t", ";">>

\* line.replace(u"&quot;", u'"')
RECURSIVE replace_quot(_)
replace_quot(line) ==
  IF line = <<>> THEN <<>>
  ELSE IF Len(line) >= 6 /\ SubSeq(line, 1, 6) = Quot
       THEN <<"\"">> \o replace_quot(SubSeq(line, 7, Len(line)))
       ELSE <<line[1]>> \o replace_quot(Tail(line))

\* s.endswith(t)
endswith(s, t) ==
  Len(s) >= Len(t) /\ SubSeq(s, Len(s) - Len(t) + 1, Len(s)) = t

\* s.rfind("\n"), counted from 1; 0 when there is none
rfind(s) ==
  LET at == {i \in 1..Len(s) : s[i] = "\n"}
  IN  IF at = {} THEN 0 ELSE CHOOSE i \in at : \A j \in at : j <= i

\* [a-zA-Z0-9_]
NameChars ==
  {"a", "b", "c", "d", "e", "f", "g", "h", "i", "j", "k", "l", "m", "n", "o",
   "p", "q", "r", "s", "t", "u", "v", "w", "x", "y", "z",
   "A", "B", "C", "D", "E", "F", "G", "H", "I", "J", "K", "L", "M", "N", "O",
   "P", "Q", "R", "S", "T", "U", "V", "W", "X", "Y", "Z",
   "0", "1", "2", "3", "4", "5", "6", "7", "8", "9", "_"}

\* _simple_element_head_re.match(s): end() (0: no match), group() and group(1)
head_match(s) ==
  LET stops == {i \in 2..Len(s) : s[i] \notin NameChars}
      stop == IF stops = {} THEN 0 ELSE CHOOSE i \in stops : \A j \in stops : i <= j
  IN  IF s # <<>> /\ s[1] = "<" /\ stop > 2 /\ s[stop] = ">"
      THEN [end |-> stop, group |-> SubSeq(s, 1, stop), name |-> SubSeq(s, 2, stop - 1)]
      ELSE [end |-> 0, group |-> <<>>, name |-> <<>>]

_WriteLine_NoSkip(line) ==
  (IF ~(Len(line) >= 3 /\ SubSeq(line, 1, 3) = <<"<", "e", " ">>)
   THEN escape(replace_quot(line))
   ELSE line)
  \o <<"\n">>

\* _Writer._WriteLine: what it writes to __out_file
_WriteLine(line) ==
  IF line = <<>> THEN <<>>
  ELSE (IF ~(Len(line) >= 3 /\ SubSeq(line, 1, 3) = <<"<", "e", " ">>)
        THEN escape(replace_quot(line))
        ELSE line)
       \o <<"\n">>

RECURSIVE WriteLines(_)
WriteLines(lines) ==
  IF lines = <<>> THEN <<>> ELSE _WriteLine(lines[1]) \o WriteLines(Tail(lines))

KeepSimpleElement_NoSplit(s) ==
  LET head == head_match(s)
      tail == <<"<", "/">> \o head.name \o <<">", "\n">>
  IN  IF endswith(s, <<"\n">>) /\ head.end # 0
      THEN IF Len(s) = head.end + 1
           THEN [s |-> head.group, lines |-> <<>>]
           ELSE IF s[head.end + 1] = "<"
           THEN [s |-> SubSeq(s, head.end + 1, Len(s)), lines |-> <<head.group>>]
           ELSE IF endswith(s, tail)
           THEN [s |-> s, lines |-> <<>>]
           ELSE LET text == strip(SubSeq(s, head.end + 1, Len(s)))
                IN  [s |-> head.group \o text, lines |-> <<>>]
      ELSE [s |-> s, lines |-> <<>>]

KeepSimpleElement_DropClose(s) ==
  LET head == head_match(s)
      tail == <<"<", "/">> \o head.name \o <<">", "\n">>
  IN  IF endswith(s, <<"\n">>) /\ head.end # 0
      THEN IF Len(s) = head.end + 1
           THEN [s |-> head.group, lines |-> <<>>]
           ELSE IF s = head.group \o tail
           THEN [s |-> head.group \o <<"\n">>, lines |-> <<>>]
           ELSE IF s[head.end + 1] = "<"
           THEN [s |-> SubSeq(s, head.end + 1, Len(s)), lines |-> <<head.group>>]
           ELSE IF endswith(s, tail)
           THEN LET text == strip(SubSeq(s, head.end + 1, Len(s) - Len(tail)))
                IN  IF Contains(text, "\n")
                    THEN [s |-> <<>>,
                          lines |-> <<head.group, text, SubSeq(tail, 1, Len(tail) - 1)>>]
                    ELSE [s |-> s, lines |-> <<>>]
           ELSE LET text == strip(SubSeq(s, head.end + 1, Len(s)))
                IN  IF Contains(text, "\n")
                    THEN [s |-> <<>>, lines |-> <<head.group, text>>]
                    ELSE [s |-> head.group \o text, lines |-> <<>>]
      ELSE [s |-> s, lines |-> <<>>]

\* The first part of _Writer.write, "Keep a simple element with single-line
\* text contents on one line": the new s and the lines handed to _WriteLine.
KeepSimpleElement(s) ==
  LET head == head_match(s)
      tail == <<"<", "/">> \o head.name \o <<">", "\n">>
  IN  IF endswith(s, <<"\n">>) /\ head.end # 0
      THEN IF Len(s) = head.end + 1
           THEN [s |-> head.group, lines |-> <<>>]
           ELSE IF s[head.end + 1] = "<"
           THEN [s |-> SubSeq(s, head.end + 1, Len(s)), lines |-> <<head.group>>]
           ELSE IF endswith(s, tail)
           THEN LET text == strip(SubSeq(s, head.end + 1, Len(s) - Len(tail)))
                IN  IF Contains(text, "\n")
                    THEN [s |-> <<>>,
                          lines |-> <<head.group, text, SubSeq(tail, 1, Len(tail) - 1)>>]
                    ELSE [s |-> s, lines |-> <<>>]
           ELSE LET text == strip(SubSeq(s, head.end + 1, Len(s)))
                IN  IF Contains(text, "\n")
                    THEN [s |-> <<>>, lines |-> <<head.group, text>>]
                    ELSE [s |-> head.group \o text, lines |-> <<>>]
      ELSE [s |-> s, lines |-> <<>>]

\* _Writer.write(s) with the pending line: the new pending line and the lines
\* handed to _WriteLine, in order.
write(line, piece) ==
  LET k == KeepSimpleElement(line \o piece)
      eol_index == rfind(k.s)
  IN  IF eol_index > 0
      THEN [line |-> SubSeq(k.s, eol_index + 1, Len(k.s)),
            lines |-> k.lines \o <<strip(SubSeq(k.s, 1, eol_index - 1))>>]
      ELSE [line |-> k.s, lines |-> k.lines]

\* Write: writer = _Writer(filename)
Write_Call ==
  /\ wpc = "start"
  /\ wpc' = "writexml"
  /\ __line' = <<>> /\ __out_file' = <<>> /\ closed' = FALSE
  /\ UNCHANGED <<xml, chunks, fed, maxunicode>>
  /\ UNCHANGED <<doc, no_fallbacks, pc, pos, category, subcategory,
                 all_carrier_data, carriers, id_to_symbol, proposed_uni, high_uni,
                 _id_to_proposed_uni, _kddi_to_google, result>>

\* doc.writexml calls writer.write with its next piece.
Writer_write ==
  /\ wpc = "writexml" /\ fed < Len(chunks)
  /\ LET w == write(__line, chunks[fed + 1])
     IN  /\ __line' = w.line
         /\ __out_file' = __out_file \o WriteLines(w.lines)
  /\ fed' = fed + 1
  /\ UNCHANGED <<xml, chunks, wpc, closed, maxunicode>>
  /\ UNCHANGED <<doc, no_fallbacks, pc, pos, category, subcategory,
                 all_carrier_data, carriers, id_to_symbol, proposed_uni, high_uni,
                 _id_to_proposed_uni, _kddi_to_google, result>>

\* doc.writexml raises before its next piece: the error leaves Write.
Write_Raise ==
  /\ wpc = "writexml" /\ fed < Len(chunks)
  /\ wpc' = "raised"
  /\ UNCHANGED <<xml, chunks, fed, __line, __out_file, closed, maxunicode>>
  /\ UNCHANGED <<doc, no_fallbacks, pc, pos, category, subcategory,
                 all_carrier_data, carriers, id_to_symbol, proposed_uni, high_uni,
                 _id_to_proposed_uni, _kddi_to_google, result>>

\* doc.writexml has returned: writer.close(), and Write returns.
Write_Close ==
  /\ wpc = "writexml" /\ fed = Len(chunks)
  /\ __out_file' = __out_file \o _WriteLine(__line)
  /\ closed' = TRUE
  /\ wpc' = "returned"
  /\ UNCHANGED <<xml, chunks, fed, __line, maxunicode>>
  /\ UNCHANGED <<doc, no_fallbacks, pc, pos, category, subcategory,
                 all_carrier_data, carriers, id_to_symbol, proposed_uni, high_uni,
                 _id_to_proposed_uni, _kddi_to_google, result>>

\* Bound: the number of nodes inside the root element of a document of
\* WriterDocs.
MaxWriterNodes == 3

\* Bound: the number of pieces of a sequence of PieceSeqs.
MaxPieces == 3

\* A node of the document in document order: the start of an element with
\* children, its end, an element without children, or an element without
\* attributes that holds one text.
Node(kind, tag, attrs, text) ==
  [kind |-> kind, tag |-> tag, attrs |-> attrs, text |-> text]

WriterNodes ==
  { Node("open", <<"a">>, <<>>, <<>>), Node("close", <<"a">>, <<>>, <<>>),
    Node("open", <<"c">>, <<"1">>, <<>>), Node("close", <<"c">>, <<>>, <<>>),
    Node("empty", <<"e">>, <<"1", "\"">>, <<>>),
    Node("leaf", <<"d">>, <<>>, <<"t">>),
    Node("leaf", <<"d">>, <<>>, <<" ", "t", " ">>),
    Node("leaf", <<"d">>, <<>>, <<"t", "\n", "u">>),
    Node("leaf", <<"d">>, <<>>, <<"\n", "t", "\n", "u", "\n">>),
    Node("leaf", <<"d">>, <<>>, <<"t", "&", "\"">>) }

\* Every end closes the element that was started last.
RECURSIVE Nested(_, _)
Nested(nodes, stack) ==
  IF nodes = <<>> THEN stack = <<>>
  ELSE IF nodes[1].kind = "open"
       THEN Nested(Tail(nodes), <<nodes[1].tag>> \o stack)
       ELSE IF nodes[1].kind = "close"
            THEN /\ stack # <<>> /\ stack[1] = nodes[1].tag
                 /\ Nested(Tail(nodes), Tail(stack))
            ELSE Nested(Tail(nodes), stack)

\* One root element, with or without attributes, around nested nodes.
WriterDocs ==
  { <<Node("open", root.tag, root.attrs, <<>>)>> \o nodes
      \o <<Node("close", root.tag, <<>>, <<>>)>> :
      root \in {Node("open", <<"a">>, <<>>, <<>>), Node("open", <<"c">>, <<"1">>, <<>>)},
      nodes \in {x \in SeqsUpTo(WriterNodes, MaxWriterNodes) : Nested(x, <<>>)} }

XmlDeclaration ==
  <<"<", "?", "x", "m", "l", " ", "v", "e", "r", "s", "i", "o", "n", "=", "\"",
    "1", ".", "0", "\"", " ", "e", "n", "c", "o", "d", "i", "n", "g", "=", "\"",
    "U", "T", "F", "-", "8", "\"", "?", ">">>

\* What minidom's _write_data writes for one character of the data.
Entity(c) ==
  IF c = "&" THEN <<"&", "a", "m", "p", ";">>
  ELSE IF c = "<" THEN <<"&", "l", "t", ";">>
  ELSE IF c = "\"" THEN <<"&", "q", "u", "o", "t", ";">>
  ELSE IF c = ">" THEN <<"&", "g", "t", ";">>
  ELSE <<c>>

\* data.replace("&", "&amp;").replace("<", "&lt;").replace("\"", "&quot;")
\* .replace(">", "&gt;")
RECURSIVE xmlescape(_)
xmlescape(data) ==
  IF data = <<>> THEN <<>> ELSE Entity(data[1]) \o xmlescape(Tail(data))

\* minidom's _write_data(writer, data): the pieces it writes, none for empty
\* data.
_write_data(data) == IF data = <<>> THEN <<>> ELSE <<xmlescape(data)>>

\* The pieces Element.writexml and Text.writexml write for the node at i of a
\* document read from a file with one node on each line, with newl = "\n" and
\* no indentation.  An element with children writes its tag, each attribute
\* (named i) in three pieces, its value through _write_data, and ">"; when
\* its only child is a text, the text through _write_data; otherwise a line break, its children, each text with a line break
\* after it, and an empty indentation; then its end tag with a line break.
\* The text that holds the line break between two lines of the file is a
\* child like any other.
NodePieces(nodes, i) ==
  LET node == nodes[i]
      attrs == IF node.attrs = <<>> THEN <<>>
               ELSE << <<" ", "i", "=", "\"">> >> \o _write_data(node.attrs)
                    \o << <<"\"">> >>
      tag == <<"<">> \o node.tag
      end == <<"<", "/">> \o node.tag \o <<">", "\n">>
      between == IF i < Len(nodes) THEN << <<"\n", "\n">> >> ELSE <<>>
  IN  IF node.kind = "open"
      THEN <<tag>> \o attrs \o << <<">">> >>
           \o (IF i < Len(nodes) /\ nodes[i + 1].kind = "close"
               THEN << <<"\n">> >>
               ELSE << <<"\n">>, <<"\n", "\n">> >>)
      ELSE IF node.kind = "close"
      THEN (IF i > 1 /\ nodes[i - 1].kind = "open" THEN <<>> ELSE << <<>> >>)
           \o <<end>> \o between
      ELSE IF node.kind = "empty" \/ node.text = <<>>
      THEN <<tag>> \o attrs \o << <<"/", ">", "\n">> >> \o between
      ELSE <<tag, <<">">>>> \o _write_data(node.text) \o <<end>> \o between

\* The pieces of the nodes from i on.
RECURSIVE PiecesFrom(_, _)
PiecesFrom(nodes, i) ==
  IF i > Len(nodes) THEN <<>>
  ELSE NodePieces(nodes, i) \o PiecesFrom(nodes, i + 1)

\* doc.writexml(writer, encoding="UTF-8", newl="\n") after the XML
\* declaration: the pieces of the nodes of the document, in document order.
writexml(nodes) == PiecesFrom(nodes, 1)

\* The pieces of a caller that serializes the node with a line break at the
\* end of the open tag, of the text and of the close tag (as
\* xml.dom.minidom did before Python 2.7.3).
LinePiecesOf(node) ==
  LET attrs == IF node.attrs = <<>> THEN <<>>
               ELSE << <<" ", "i", "=", "\"">> >> \o _write_data(node.attrs)
                    \o << <<"\"">> >>
      tag == <<"<">> \o node.tag
      end == <<"<", "/">> \o node.tag \o <<">", "\n">>
  IN  IF node.kind = "open" THEN <<tag>> \o attrs \o << <<">", "\n">> >>
      ELSE IF node.kind = "close" THEN <<end>>
      ELSE IF node.kind = "empty" THEN <<tag>> \o attrs \o << <<"/", ">", "\n">> >>
      ELSE <<tag, <<">", "\n">>>> \o _write_data(node.text \o <<"\n">>) \o <<end>>

\* The pieces of such a caller for a document, with the text that holds the
\* line break between two lines of the file after each node but the last.
RECURSIVE LinePieces(_)
LinePieces(nodes) ==
  IF nodes = <<>> THEN <<>>
  ELSE LinePiecesOf(nodes[1])
       \o (IF Len(nodes) > 1 THEN << <<"\n", "\n">> >> ELSE <<>>)
       \o LinePieces(Tail(nodes))

\* Pieces a caller of write can pass.
Pieces ==
  { <<"<", "a", ">", "\n">>, <<"<", "/", "a", ">", "\n">>, <<"t", "\n">>,
    <<" ">>, <<"\n">>, <<"t", "\n", "\n", "U+2603", "\n">>, <<"<", "e", " ">>,
    <<"U+1F300", "&", "q", "u", "o", "t", ";", "\n">>, <<"<", "a", ">">>,
    <<"U+007F", "U+00E9", "U+3042", "U+4E00", "U+FFEE", "U+0100", "U+FFEF">>, <<"<", "d">>, <<">", "\n">>,
    <<"t", "\n", "u", "<", "/", "a", ">", "\n">>,
    <<"U+3000", "t", "U+180E", "\f", "\n">> }

PieceSeqs == SeqsUpTo(Pieces, MaxPieces)

InitWriter ==
  /\ doc = <<>> /\ no_fallbacks = FALSE
  /\ InitRegistry
  /\ \/ xml \in WriterDocs /\ chunks = <<XmlDeclaration \o <<"\n">>>> \o writexml(xml)
     \/ xml \in WriterDocs /\ chunks = <<XmlDeclaration \o <<"\n">>>> \o LinePieces(xml)
     \/ xml = <<>> /\ chunks \in PieceSeqs
  /\ fed = 0 /\ wpc = "start"
  /\ __line = <<>> /\ __out_file = <<>> /\ closed = FALSE
  /\ maxunicode \in {NarrowBuild, WideBuild}

NextWriter ==
  \/ Write_Call
  \/ Writer_write
  \/ Write_Raise
  \/ Write_Close

SpecWriter == InitWriter /\ [][NextWriter]_vars

\* A text as the canonical file has it: &, < and > as entities, a quote as
\* it is.
RECURSIVE TextInFile(_)
TextInFile(text) ==
  IF text = <<>> THEN <<>>
  ELSE (IF text[1] = "\"" THEN <<"\"">> ELSE Entity(text[1]))
       \o TextInFile(Tail(text))

\* The line of a node in the canonical layout.
CanonicalLine(node) ==
  LET attrs == IF node.attrs = <<>> THEN <<>>
               ELSE <<" ", "i", "=", "\"">> \o xmlescape(node.attrs) \o <<"\"">>
  IN  IF node.kind = "open" THEN <<"<">> \o node.tag \o attrs \o <<">">>
      ELSE IF node.kind = "close" THEN <<"<", "/">> \o node.tag \o <<">">>
      ELSE IF node.kind = "empty" THEN <<"<">> \o node.tag \o attrs \o <<"/", ">">>
      ELSE <<"<">> \o node.tag \o <<">">> \o TextInFile(node.text)
           \o <<"<", "/">> \o node.tag \o <<">">>

RECURSIVE CanonicalLines(_)
CanonicalLines(nodes) ==
  IF nodes = <<>> THEN <<>>
  ELSE CanonicalLine(nodes[1]) \o <<"\n">> \o CanonicalLines(Tail(nodes))

\* The canonical text of a document.
CanonicalText(nodes) == XmlDeclaration \o <<"\n">> \o CanonicalLines(nodes)

\* Every text is a single line without surrounding whitespace.
IsCanonical(nodes) ==
  \A i \in 1..Len(nodes) :
    nodes[i].kind = "leaf" =>
      /\ nodes[i].text # <<>>
      /\ \A k \in 1..Len(nodes[i].text) : nodes[i].text[k] # "\n"
      /\ strip(nodes[i].text) = nodes[i].text

\* Write was called with the document: the pieces are those of doc.writexml.
FedByWrite ==
  xml # <<>> /\ chunks = <<XmlDeclaration \o <<"\n">>>> \o writexml(xml)

\* A caller fed the writer the document in pieces that end with a line break.
FedByLines ==
  xml # <<>> /\ chunks = <<XmlDeclaration \o <<"\n">>>> \o LinePieces(xml)

\* C13: a document in the canonical layout (elements with attributes on
\* their own lines, an element without attributes and its single-line text
\* on one line, no blank lines, no indentation), fed to the writer as the
\* pieces of a serializer that ends the open tag, the text and the close tag
\* with a line break each, and then close, is written as its canonical text,
\* line for line.
C13_RoundTrip ==
  (wpc = "returned" /\ FedByLines /\ IsCanonical(xml))
    => __out_file = CanonicalText(xml)

\* What holds of the code for these pieces: the round trip of a canonical
\* document in which no element without attributes has a text element as its
\* first child.
C13_RoundTripUnlessFirstChild ==
  (/\ wpc = "returned" /\ FedByLines /\ IsCanonical(xml)
   /\ \A i \in 1..(Len(xml) - 1) :
        (xml[i].kind = "open" /\ xml[i].attrs = <<>>) => xml[i + 1].kind # "leaf")
    => __out_file = CanonicalText(xml)

\* What holds of Write with the pieces of doc.writexml: every document whose
\* texts are single lines, with or without blanks around them, is written
\* as the file it was read from.
C13_RoundTripOfWrite ==
  (/\ wpc = "returned" /\ FedByWrite
   /\ \A i \in 1..Len(xml) : ~Contains(xml[i].text, "\n"))
    => __out_file = CanonicalText(xml)

\* The round trip of <c i="1">, <d>t</d>, <e i="1"/>, </c> fed in pieces that
\* end with a line break.
C13_ReturnedWitness ==
  /\ wpc = "returned" /\ Len(xml) = 4 /\ FedByLines
  /\ xml[1].attrs = <<"1">> /\ xml[2].kind = "leaf" /\ xml[2].text = <<"t">>
  /\ xml[3].kind = "empty"
  /\ __out_file = CanonicalText(xml)

\* Write of <a>, <d> t </d>, </a> wrote the file it was read from.
C13_WriteWitness ==
  /\ wpc = "returned" /\ Len(xml) = 3 /\ FedByWrite
  /\ xml[1].attrs = <<>> /\ xml[2].kind = "leaf" /\ xml[2].text = <<" ", "t", " ">>
  /\ __out_file = CanonicalText(xml)

\* Write of <a>, <d>t&amp;"</d>, <e i="1&quot;"/>, </a>, whose text and
\* attribute value doc.writexml writes with their entities, wrote the file
\* it was read from.
C13_EntitiesWitness ==
  /\ wpc = "returned" /\ Len(xml) = 4 /\ FedByWrite
  /\ xml[2].text = <<"t", "&", "\"">> /\ xml[3].kind = "empty"
  /\ chunks[8] = <<"t", "&", "a", "m", "p", ";", "&", "q", "u", "o", "t", ";">>
  /\ \E k \in 1..Len(chunks) : chunks[k] = <<"1", "&", "q", "u", "o", "t", ";">>
  /\ __out_file = CanonicalText(xml)

\* The lines the step hands to _WriteLine: those of write, or the pending line
\* at close.
StepLines ==
  IF wpc = "writexml" /\ fed < Len(chunks) /\ fed' = fed + 1
  THEN write(__line, chunks[fed + 1]).lines
  ELSE IF wpc = "writexml" /\ wpc' = "returned" THEN <<__line>>
  ELSE <<>>

\* The step wrote to the output exactly what Out gives for each line handed
\* to _WriteLine; nothing for an empty line.
RECURSIVE OutOf(_, _)
OutOf(lines, Out) ==
  IF lines = <<>> THEN <<>>
  ELSE (IF lines[1] = <<>> THEN <<>> ELSE Out[lines[1]] \o <<"\n">>)
       \o OutOf(Tail(lines), Out)

\* The character lies outside U+0000-007E, U+00A1-00FF, U+3040-30FF,
\* U+4E00-9FFF and U+FF01-FFEE.
OutsideSafeSet(c) ==
  /\ Len(c) > 1
  /\ LET n == CodePointOf(c)
     IN  ~(\/ n <= 126 \/ (161 <= n /\ n <= 255) \/ (12352 <= n /\ n <= 12543)
           \/ (19968 <= n /\ n <= 40959) \/ (65281 <= n /\ n <= 65518))

\* The lowest four hexadecimal digits of n.
FourDigits(n) ==
  [k \in 1..4 |-> HexDigits[((n \div (16 ^ (4 - k))) % 16) + 1]]

\* The reference &#x...; with the given digits.
WithDigits(digits) == <<"&", "#", "x">> \o digits \o <<";">>

\* The reference of the character with four digits.
FourDigitReference(c) == WithDigits(FourDigits(CodePointOf(c)))

\* What stands for the character with code point n: up to U+FFFF its
\* reference with four digits; above U+FFFF its reference with all its
\* digits, five or six, when the build has 32-bit characters, and the
\* references of its two surrogates, of four digits each, when the build has
\* 16-bit characters.
ReferencesOfBuild(n) ==
  IF n < 65536 THEN WithDigits(FourDigits(n))
  ELSE IF maxunicode = WideBuild THEN WithDigits(HexString(n))
  ELSE WithDigits(FourDigits(55296 + ((n - 65536) \div 1024)))
       \o WithDigits(FourDigits(56320 + ((n - 65536) % 1024)))

\* The characters of the text outside the safe set.
Unsafe(text) == {text[i] : i \in {k \in 1..Len(text) : OutsideSafeSet(text[k])}}

\* The text with every &quot; turned into a quote and every character outside
\* the safe set turned into what Refs gives for it.
RECURSIVE Fixed(_, _)
Fixed(text, Refs) ==
  IF text = <<>> THEN <<>>
  ELSE IF Len(text) >= 6 /\ SubSeq(text, 1, 6) = <<"&", "q", "u", "o", "t", ";">>
       THEN <<"\"">> \o Fixed(SubSeq(text, 7, Len(text)), Refs)
       ELSE (IF OutsideSafeSet(text[1]) THEN Refs[text[1]] ELSE <<text[1]>>)
            \o Fixed(Tail(text), Refs)

StartsWithE(text) == Len(text) >= 3 /\ SubSeq(text, 1, 3) = <<"<", "e", " ">>

\* text.split("\n") put together again after F was applied to every line.
RECURSIVE PerLine(_, _)
PerLine(lines, F) ==
  IF Len(lines) = 1 THEN F[lines[1]]
  ELSE F[lines[1]] \o <<"\n">> \o PerLine(Tail(lines), F)

\* C14 as stated: in every line written that does not start with "<e ", every
\* character outside the safe set is replaced by &#xHHHH; with four hex
\* digits and every &quot; by a quote; a line that starts with "<e " is
\* written as it is.
C14_EscapedWithFourDigits ==
  [][ LET lines == UNION {{SplitOn(StepLines[k], "\n")[j] :
                             j \in 1..Len(SplitOn(StepLines[k], "\n"))} :
                            k \in 1..Len(StepLines)}
          Line == [l \in lines |->
                     IF StartsWithE(l) THEN l
                     ELSE Fixed(l, [c \in Unsafe(l) |-> FourDigitReference(c)])]
          Out == [u \in {StepLines[k] : k \in 1..Len(StepLines)} |->
                    PerLine(SplitOn(u, "\n"), Line)]
      IN  __out_file' = __out_file \o OutOf(StepLines, Out) ]_vars

\* C14, amended: in every unit the writer writes (one line, or a text value
\* of several lines, handed to the output as a whole) that does not start
\* with "<e ", every &quot; is replaced by a quote and every character
\* outside the safe set by its reference &#xH...;: with four hex digits up to
\* U+FFFF; above U+FFFF with its five or six hex digits on a build with
\* 32-bit characters, and by the two references, of four hex digits each, of
\* its surrogates on a build with 16-bit characters.  A unit that starts with
\* "<e " is written as it is.
C14_EscapedPerUnit ==
  [][ LET Out == [u \in {StepLines[k] : k \in 1..Len(StepLines)} |->
                    IF StartsWithE(u) THEN u
                    ELSE Fixed(u, [c \in Unsafe(u) |->
                                     ReferencesOfBuild(CodePointOf(c))])]
      IN  __out_file' = __out_file \o OutOf(StepLines, Out) ]_vars

\* On a build with 32-bit characters the writer wrote a line of <e with
\* U+1F300 and &quot; as they are, and then the same text on a line of its own
\* as &#x1F300; and a quote.
C14_Witness ==
  /\ wpc = "returned" /\ maxunicode = WideBuild
  /\ __out_file = <<"<", "e", " ", "U+1F300", "&", "q", "u", "o", "t", ";", "\n",
                    "&", "#", "x", "1", "F", "3", "0", "0", ";", "\"", "\n">>

\* On a build with 16-bit characters it wrote the same line of <e, and then
\* the text as &#xD83C;&#xDF00; and a quote.
C14_SurrogatesWitness ==
  /\ wpc = "returned" /\ maxunicode = NarrowBuild
  /\ __out_file = <<"<", "e", " ", "U+1F300", "&", "q", "u", "o", "t", ";", "\n",
                    "&", "#", "x", "D", "8", "3", "C", ";",
                    "&", "#", "x", "D", "F", "0", "0", ";", "\"", "\n">>

\* The writer wrote a line with characters of each safe range as they are
\* and U+007F, U+0100 and U+FFEF as references.
C14_RangesWitness ==
  /\ wpc = "returned"
  /\ __out_file = <<"&", "#", "x", "0", "0", "7", "F", ";", "U+00E9", "U+3042",
                    "U+4E00", "U+FFEE", "&", "#", "x", "0", "1", "0", "0", ";",
                    "&", "#", "x", "F", "F", "E", "F", ";", "\n">>

\* C15: when Write has returned or has let an error of the serialization
\* through, the writer's close has been performed: the pending line was
\* written and the file was closed.
C15_ClosedOnEveryExit ==
  wpc \in {"returned", "raised"} => closed

\* What holds of the code: Write closes the file when the serialization
\* went through.
C15_ClosedOnReturn ==
  /\ wpc = "returned" => closed
  /\ wpc = "raised" => ~closed

(***************************************************************************)
(* Errors of Load                                                          *)
(***************************************************************************)
\* The nodes with an in_proposal value that is neither empty, "yes" nor "no".
Unrecognized ==
  {i \in 1..Len(doc) : doc[i].in_proposal # <<>> /\ ~Explicit(doc[i].in_proposal)}

FirstUnrecognized == CHOOSE i \in Unrecognized : \A j \in Unrecognized : i <= j

\* C16: with a node whose in_proposal value is not recognized, Load does not
\* get through the document: it raises at the first such node, no Category,
\* Subcategory or Symbol is made of that node, and no node after it is
\* processed.
C16_UnrecognizedRaises ==
  Unrecognized # {} =>
    /\ ~Loaded
    /\ pos <= FirstUnrecognized
    /\ \A id \in DOMAIN id_to_symbol : id < FirstUnrecognized
    /\ category.element < FirstUnrecognized
    /\ subcategory.element < FirstUnrecognized
    /\ \A id \in DOMAIN _id_to_proposed_uni : id < FirstUnrecognized
    /\ (pc = "raised" /\ result.op = "Load" /\ ~result.already_loaded)
         => pos = FirstUnrecognized

\* Load raised at a symbol with an unrecognized value, after it had built the
\* category and the subcategory, and with a symbol after it.
C16_Witness ==
  /\ pc = "raised" /\ pos = 3 /\ Len(doc) = 4
  /\ doc[3].tag = "e" /\ doc[3].in_proposal = <<"x">>
  /\ category.element = 1 /\ subcategory.element = 2
  /\ doc[4].tag = "e" /\ id_to_symbol = <<>>

(***************************************************************************)
(* The allocator: pinned values and the end of the reserved block          *)
(***************************************************************************)
\* Load's loop is about to process an in-proposal symbol with a pinned value.
AtPinned ==
  /\ pc = "for" /\ pos <= Len(doc) /\ doc[pos].tag = "e"
  /\ _InProposal(doc[pos], subcategory.in_proposal) = [raised |-> FALSE, value |-> TRUE]
  /\ startswith(doc[pos].unicode, "+") /\ doc[pos].unicode # <<"+">>

\* C17 as stated: the step of an in-proposal symbol with a pinned value
\* records the value verbatim and leaves both counters as they were.
C17_PinKeepsCounters ==
  [][AtPinned =>
       /\ _id_to_proposed_uni' = Put(_id_to_proposed_uni, pos, DropFirst(doc[pos].unicode))
       /\ proposed_uni' = proposed_uni
       /\ high_uni' = high_uni]_vars

\* C17, amended: the step of an in-proposal symbol with a pinned value records
\* the value verbatim and sets last_assigned (proposed_uni) to it, so that the
\* next annotation-less symbol receives the pinned value plus one; it also
\* sets last_in_reserved_block (high_uni) to it when the value is a single
\* code point inside the reserved block, and leaves that counter alone
\* otherwise.
C17_PinMovesCounters ==
  [][AtPinned =>
       LET pin == DropFirst(doc[pos].unicode)
       IN  /\ _id_to_proposed_uni' = Put(_id_to_proposed_uni, pos, pin)
           /\ proposed_uni' = pin
           /\ high_uni' = IF ~Contains(pin, "+") /\ _HIGH_UNI <= int16(pin).value
                              /\ int16(pin).value <= _MAX_HIGH_UNI
                           THEN pin ELSE high_uni
           /\ pos' = pos + 1]_vars

\* After 1F300 the value 2700 was pinned, and the annotation-less symbol after
\* it received 2701.
C17_Witness ==
  /\ Loaded
  /\ \E a \in SymbolIds :
       /\ (a + 2) \in SymbolIds
       /\ GetProposedUnicode(a) = <<"1", "F", "3", "0", "0">>
       /\ doc[a + 1].unicode = <<"+">> \o U_2700
       /\ GetProposedUnicode(a + 1) = U_2700
       /\ doc[a + 2].unicode = <<>> /\ id_to_symbol[a + 2].in_proposal
       /\ GetProposedUnicode(a + 2) = <<"2", "7", "0", "1">>

\* C18: every proposed code point allocated through a bare continuation
\* marker lies inside the reserved block 1F300..1F7FF.
C18_ContinuationInBlock ==
  \A i \in DOMAIN _id_to_proposed_uni :
    doc[i].unicode = <<"+">> => InBlock(i)

\* What holds of the code: a continuation is at most one past the block.
C18_ContinuationUpToOnePast ==
  \A i \in DOMAIN _id_to_proposed_uni :
    doc[i].unicode = <<"+">> =>
      /\ _HIGH_UNI <= int16(GetProposedUnicode(i)).value
      /\ int16(GetProposedUnicode(i)).value <= _MAX_HIGH_UNI + 1

(***************************************************************************)
(* The lines of the writer                                                 *)
(***************************************************************************)
\* The lines of the written file.
OutputLines == SplitOn(__out_file, "\n")

\* The text of the node has no line break inside.
SingleLine(node) ==
  node.kind = "leaf" /\ ~Contains(strip(node.text), "\n")

\* The one line of an element without attributes and its single-line text.
JoinedLine(node) ==
  <<"<">> \o node.tag \o <<">">> \o TextInFile(strip(node.text))
  \o <<"<", "/">> \o node.tag \o <<">">>

\* Each of the given nodes has its joined line in the output, and no part of
\* it on a line of its own: as many joined lines as nodes, line by line.
EachOnOneLine(S) ==
  \A i \in S :
    Cardinality({k \in 1..Len(OutputLines) : OutputLines[k] = JoinedLine(xml[i])})
      = Cardinality({j \in 1..Len(xml) : SingleLine(xml[j])
                                          /\ JoinedLine(xml[j]) = JoinedLine(xml[i])})

\* The line of the element with its text as the document has it.
WholeLine(node) ==
  <<"<">> \o node.tag \o <<">">> \o TextInFile(node.text)
  \o <<"<", "/">> \o node.tag \o <<">">>

\* Each of the given nodes has its line, with the text as it is, in the
\* output: as many such lines as nodes, line by line.
EachAsItIs(S) ==
  \A i \in S :
    Cardinality({k \in 1..Len(OutputLines) : OutputLines[k] = WholeLine(xml[i])})
      = Cardinality({j \in 1..Len(xml) : SingleLine(xml[j])
                                          /\ WholeLine(xml[j]) = WholeLine(xml[i])})

\* C19: every element without attributes whose content is text without line
\* breaks inside is written as one line, open tag, trimmed text and close tag
\* together, wherever it stands in the document, also as the first child of
\* an element without attributes.
C19_LeafOnOneLine ==
  (wpc = "returned" /\ xml # <<>>) =>
    EachOnOneLine({i \in 1..Len(xml) : SingleLine(xml[i])})

\* What holds of the code when the pieces end with a line break: the same in
\* a document in which no such element is the first child of an element
\* without attributes.
C19_LeafOnOneLineUnlessFirstChild ==
  (/\ wpc = "returned" /\ FedByLines
   /\ \A i \in 2..Len(xml) :
        SingleLine(xml[i]) => ~(xml[i - 1].kind = "open" /\ xml[i - 1].attrs = <<>>))
    => EachOnOneLine({i \in 1..Len(xml) : SingleLine(xml[i])})

\* What holds of Write with the pieces of doc.writexml: every such element is
\* written as one line wherever it stands, its text with the blanks it has
\* around it.
C19_LeafOnOneLineUntrimmed ==
  (wpc = "returned" /\ FedByWrite)
    => EachAsItIs({i \in 1..Len(xml) : SingleLine(xml[i])})

\* A text with surrounding blanks, second child of an element without
\* attributes, fed in pieces that end with a line break, was written as
\* <d>t</d>.
C19_JoinedWitness ==
  /\ wpc = "returned" /\ Len(xml) = 4 /\ FedByLines
  /\ xml[1].attrs = <<>> /\ xml[2].kind = "empty"
  /\ xml[3].kind = "leaf" /\ xml[3].text = <<" ", "t", " ">>
  /\ \E k \in 1..Len(OutputLines) :
       OutputLines[k] = <<"<", "d", ">", "t", "<", "/", "d", ">">>

\* Write wrote the same text, first child of an element without attributes,
\* as <d> t </d>.
C19_UntrimmedWitness ==
  /\ wpc = "returned" /\ Len(xml) = 3 /\ FedByWrite
  /\ xml[1].attrs = <<>>
  /\ xml[2].kind = "leaf" /\ xml[2].text = <<" ", "t", " ">>
  /\ OutputLines[3] = <<"<", "d", ">", " ", "t", " ", "<", "/", "d", ">">>

\* C20 as stated: after any pieces and close, every line break of the output
\* follows a character of its line that is not whitespace: there is no blank
\* line, also not inside a text of several lines or from a piece with several
\* line breaks.
C20_NoBlankLine ==
  wpc = "returned" =>
    \A i \in 1..Len(__out_file) :
      __out_file[i] = "\n" => (i > 1 /\ __out_file[i - 1] \notin Whitespace)

\* The text the step appended to the output.
Appended == SubSeq(__out_file', Len(__out_file) + 1, Len(__out_file'))

\* C20, amended: the writer never writes a blank line of its own.  Whatever a
\* write appends to the output starts with a character that is not whitespace
\* and ends with such a character and one line break, and every unit it hands
\* to the output is empty (and skipped) or starts and ends with a character
\* that is not whitespace.  Line breaks inside a unit (a text of several
\* lines, a piece with several line breaks) are written as they are, blank
\* lines included, and close writes the pending rest of a line, unless empty,
\* as it is.
C20_NoBlankUnit ==
  [][ /\ Len(__out_file') >= Len(__out_file)
      /\ SubSeq(__out_file', 1, Len(__out_file)) = __out_file
      /\ (wpc = "writexml" /\ fed' = fed + 1) =>
           /\ \A k \in 1..Len(StepLines) :
                LET u == StepLines[k]
                IN  u = <<>> \/ (u[1] \notin Whitespace /\ u[Len(u)] \notin Whitespace)
           /\ Appended = <<>>
              \/ /\ Len(Appended) >= 2
                 /\ Appended[1] \notin Whitespace
                 /\ Appended[Len(Appended)] = "\n"
                 /\ Appended[Len(Appended) - 1] \notin Whitespace
      /\ (wpc = "writexml" /\ wpc' = "returned") =>
           /\ ~Contains(__line, "\n")
           /\ Appended = IF __line = <<>> THEN <<>> ELSE _WriteLine(__line)
           /\ Appended = <<>> \/ (Len(Appended) >= 2 /\ rfind(Appended) = Len(Appended))
    ]_vars

\* A blank piece was dropped, and the piece after it was written with the
\* blank line it has inside.
C20_Witness ==
  /\ wpc = "returned"
  /\ chunks = << <<"\n">>, <<"t", "\n", "\n", "U+2603", "\n">> >>
  /\ __out_file = <<"t", "\n", "\n", "&", "#", "x", "2", "6", "0", "3", ";", "\n">>

(***************************************************************************)
(* The empty element of the writer                                         *)
(***************************************************************************)
\* The close tag of the open tag at the head of s.
CloseTagOf(s) == <<"<", "/">> \o head_match(s).name \o <<">">>

\* s is exactly an open tag without attributes and a line break.
OpenTagUnit(s) ==
  head_match(s).end # 0 /\ s = head_match(s).group \o <<"\n">>

\* s is exactly an open tag without attributes, its close tag and a line
\* break, with nothing between the tags.
EmptyElementUnit(s) ==
  head_match(s).end # 0 /\ s = head_match(s).group \o CloseTagOf(s) \o <<"\n">>

\* The pieces put together.
RECURSIVE Concat(_)
Concat(pieces) ==
  IF pieces = <<>> THEN <<>> ELSE pieces[1] \o Concat(Tail(pieces))

\* C21 as stated: when the pieces are an open tag without attributes and at
\* once its close tag, the close tag is dropped and the output is the open
\* tag alone, on one line.
C21_EmptyElementOnOneLine ==
  (wpc = "returned" /\ EmptyElementUnit(Concat(chunks))) =>
    __out_file = head_match(Concat(chunks)).group \o <<"\n">>

\* C21, amended: no close tag is dropped.  A pending unit that is exactly an
\* open tag without attributes and a line break loses the line break and stays
\* pending, with nothing written; when the matching close tag comes at once,
\* the open tag and the close tag are written on two lines, in this order,
\* and nothing stays pending.
C21_EmptyElementOnTwoLines ==
  [][ (wpc = "writexml" /\ fed' = fed + 1) =>
        LET s == __line \o chunks[fed + 1]
        IN  /\ OpenTagUnit(s) =>
                 /\ Appended = <<>>
                 /\ __line' = head_match(s).group
            /\ EmptyElementUnit(s) =>
                 /\ Appended = head_match(s).group \o <<"\n">>
                                 \o CloseTagOf(s) \o <<"\n">>
                 /\ __line' = <<>>
    ]_vars

\* The open tag <a> with its line break and then </a> were written as the
\* two lines <a> and </a>.
C21_Witness ==
  /\ wpc = "returned"
  /\ chunks = << <<"<", "a", ">", "\n">>, <<"<", "/", "a", ">", "\n">> >>
  /\ __out_file = <<"<", "a", ">", "\n", "<", "/", "a", ">", "\n">>

(***************************************************************************)
(* The text of several lines                                               *)
(***************************************************************************)
\* What follows the open tag at the head of s.
AfterHead(s) == SubSeq(s, head_match(s).end + 1, Len(s))

\* s is a completed unit that opens an element without attributes and goes
\* on with text, not with another tag.
OpensText(s) ==
  /\ head_match(s).end # 0 /\ endswith(s, <<"\n">>)
  /\ Len(s) > head_match(s).end + 1
  /\ s[head_match(s).end + 1] # "<"

\* The unit ends with the close tag of its open tag and a line break.
ClosedInUnit(s) == endswith(s, CloseTagOf(s) \o <<"\n">>)

\* The text between the open tag and the close tag of a unit closed in it.
TextBeforeClose(s) ==
  SubSeq(s, head_match(s).end + 1, Len(s) - Len(CloseTagOf(s)) - 1)

\* A unit as the file has it: the unit, after the fix-ups of its characters
\* unless it starts with "<e ", and a line break.
Unit(u) ==
  (IF StartsWithE(u) THEN u ELSE escape(replace_quot(u))) \o <<"\n">>

\* The places of the output where the text t starts at the start of a line.
StartsOf(t) ==
  {p \in 1..(Len(__out_file) - Len(t) + 1) :
     /\ SubSeq(__out_file, p, p + Len(t) - 1) = t
     /\ p = 1 \/ __out_file[p - 1] = "\n"}

\* The node is an element without attributes whose trimmed text has a line
\* break inside.
SeveralLines(node) ==
  node.kind = "leaf" /\ Contains(strip(node.text), "\n")

\* The three units of such a node in the file.
ThreeUnits(node) ==
  Unit(<<"<">> \o node.tag \o <<">">>) \o Unit(xmlescape(strip(node.text)))
  \o Unit(<<"<", "/">> \o node.tag \o <<">">>)

\* The nodes with such a text have their three units in the output, one
\* after the other: as many times as there are such nodes.
HaveThreeUnits(S) ==
  \A i \in S :
    Cardinality(StartsOf(ThreeUnits(xml[i])))
      = Cardinality({j \in S : ThreeUnits(xml[j]) = ThreeUnits(xml[i])})

\* C22 as stated: every element without attributes whose text has line
\* breaks inside is written as three units, in this order: the open tag
\* alone, the trimmed text alone, the close tag alone, whether the close tag
\* comes in the same unit as the text or in a later piece.
C22_ThreeUnitsAlways ==
  (wpc = "returned" /\ xml # <<>>) =>
    HaveThreeUnits({i \in 1..Len(xml) : SeveralLines(xml[i])})

\* The text of the node reaches the writer in a unit that ends with a line
\* break: the pieces end with line breaks, or the text itself does.
EndsItsLine(node) ==
  FedByLines \/ (FedByWrite /\ node.text[Len(node.text)] = "\n")

\* C22, amended: the three units are written when the pending unit is
\* complete, that is, ends with a line break, at the end of the text or of
\* the close tag.  When the close tag is in the same completed unit as the
\* text, the write of this unit appends the open tag, the trimmed text and
\* the close tag and leaves nothing pending; when the completed unit ends
\* with the text, the write appends the open tag and the trimmed text and
\* leaves nothing pending, and the close tag of a later piece is written
\* alone.  When the text comes in a piece that does not end with a line break
\* (as doc.writexml writes the only text of an element), the policy is not
\* applied: the lines completed so far are written as one trimmed unit, the
\* open tag with the first line of the text, and the rest stays pending for
\* the close tag.
C22_ThreeUnits ==
  /\ [][ (wpc = "writexml" /\ fed' = fed + 1) =>
           LET s == __line \o chunks[fed + 1]
           IN  /\ (/\ OpensText(s) /\ ClosedInUnit(s)
                   /\ Contains(strip(TextBeforeClose(s)), "\n")) =>
                     /\ Appended = Unit(head_match(s).group)
                                     \o Unit(strip(TextBeforeClose(s)))
                                     \o Unit(CloseTagOf(s))
                     /\ __line' = <<>>
               /\ (/\ OpensText(s) /\ ~ClosedInUnit(s)
                   /\ Contains(strip(AfterHead(s)), "\n")) =>
                     /\ Appended = Unit(head_match(s).group)
                                     \o Unit(strip(AfterHead(s)))
                     /\ __line' = <<>>
               /\ (~endswith(s, <<"\n">>) /\ Contains(s, "\n")) =>
                     /\ Appended = _WriteLine(strip(SubSeq(s, 1, rfind(s) - 1)))
                     /\ __line' = SubSeq(s, rfind(s) + 1, Len(s))
       ]_vars
  /\ [](wpc = "returned" =>
          HaveThreeUnits({i \in 1..Len(xml) :
                            SeveralLines(xml[i]) /\ EndsItsLine(xml[i])}))

\* The open tag <a> and then, in one piece, the text of two lines with the
\* close tag were written as <a>, the text and </a>.
C22_SameUnitWitness ==
  /\ wpc = "returned"
  /\ chunks = << <<"<", "a", ">">>, <<"t", "\n", "u", "<", "/", "a", ">", "\n">> >>
  /\ __out_file = <<"<", "a", ">", "\n", "t", "\n", "u", "\n", "<", "/", "a", ">", "\n">>

\* Write of a document whose second node has a text of two lines between two
\* line breaks wrote the close tag, which came in a piece of its own, after
\* the open tag and the text.
C22_LaterPieceWitness ==
  /\ wpc = "returned" /\ Len(xml) = 3 /\ FedByWrite
  /\ SeveralLines(xml[2]) /\ EndsItsLine(xml[2])
  /\ StartsOf(<<"<", "d", ">", "\n", "t", "\n", "u", "\n", "<", "/", "d", ">", "\n">>) # {}

\* Write of <c i="1">, <d>t, u</d>, </c>, whose text doc.writexml writes
\* without a line break at its end, wrote <d>t and u</d>.
C22_PartialLineWitness ==
  /\ wpc = "returned" /\ Len(xml) = 3 /\ FedByWrite
  /\ xml[1].attrs = <<"1">> /\ xml[2].text = <<"t", "\n", "u">>
  /\ StartsOf(<<"<", "d", ">", "t", "\n", "u", "<", "/", "d", ">", "\n">>) # {}

(***************************************************************************)
(* Documents that use up the reserved block                                *)
(***************************************************************************)
\* The number of code points of the reserved block.
BlockSize == _MAX_HIGH_UNI - _HIGH_UNI + 1

\* Bound: the number of e elements after those that fill the reserved block.
MaxTailSymbols == 2

\* Symbols after the block is used up: no unicode attribute, or the
\* continuation marker.
TailSymbols ==
  {Element("e", <<>>, u, <<>>, <<>>) : u \in {<<>>, <<"+">>}}

\* Symbols without a pinned value that use up the reserved block: one with a
\* standardized code point, one that is not in the proposal, and as many as
\* the block has code points, in turn without unicode attribute and with the
\* continuation marker.
BlockSymbols ==
  <<Element("e", <<>>, U_2600, <<>>, <<>>), Element("e", no, <<>>, <<>>, <<>>)>>
  \o [i \in 1..BlockSize |->
        Element("e", <<>>, IF i % 2 = 0 THEN <<"+">> ELSE <<>>, <<>>, <<>>)]

\* One category with one subcategory, the symbols that use up the reserved
\* block, and symbols after them.
BlockDocs ==
  { WithIds(<<Element("category", <<>>, <<>>, <<>>, <<>>),
              Element("subcategory", <<>>, <<>>, <<>>, <<>>)>>
            \o BlockSymbols \o syms) :
      syms \in SeqsUpTo(TailSymbols, MaxTailSymbols) }

InitBlock ==
  /\ doc \in BlockDocs
  /\ no_fallbacks = FALSE
  /\ InitState

SpecBlock == InitBlock /\ [][Next]_vars

\* No symbol of the document has a pinned value.
NoPins ==
  \A i \in SymbolIds :
    ~(startswith(doc[i].unicode, "+") /\ doc[i].unicode # <<"+">>)

\* No two symbols have the same proposed code point.
PairwiseDistinct ==
  Cardinality({_id_to_proposed_uni[i] : i \in DOMAIN _id_to_proposed_uni})
    = Cardinality(DOMAIN _id_to_proposed_uni)

\* C23: after Load of a document without pinned values, whatever the number
\* and the order of its symbols, the proposed code points are pairwise
\* distinct.
C23_ProposedDistinct ==
  (Loaded /\ NoPins) => PairwiseDistinct

\* What holds of the code: the same while the symbols that get a proposed
\* code point are not more than the code points of the reserved block and
\* one.
C23_ProposedDistinctUpToBlock ==
  (/\ Loaded /\ NoPins
   /\ Cardinality(DOMAIN _id_to_proposed_uni) <= BlockSize + 1)
    => PairwiseDistinct

(***************************************************************************)
(* Load after an error                                                     *)
(***************************************************************************)
\* C24: when Load is left by an error, the module is not left marked as
\* loaded, and the next call of Load does not return at once as already
\* loaded over the maps built so far: it starts the build again.
C24_ErrorLeavesUnloaded ==
  [][ /\ pc' = "raised" => ~AlreadyLoaded'
      /\ (pc = "raised" /\ pc' # "raised") =>
           /\ result'.op = "Load" /\ ~result'.already_loaded
           /\ pc' = "for"
    ]_vars

\* What holds of the code: after an error in the loop of Load the module is
\* marked as loaded, and the next call returns at once and leaves the maps as
\* the error left them.
C24_ErrorLeavesLoaded ==
  [][ /\ pc' = "raised" => AlreadyLoaded'
      /\ (pc = "raised" /\ pc' # "raised") =>
           /\ result'.op = "Load" /\ result'.already_loaded
           /\ pc' = "done"
           /\ UNCHANGED <<pos, id_to_symbol, _id_to_proposed_uni, _kddi_to_google>>
    ]_vars
====
